---------------------------- MODULE Spec2Model ----------------------------
(***************************************************************************)
(* A model of the workout-logging client (src/src/App.jsx and its sibling  *)
(* revision src/unnamed/part_000): the 1RM estimator, the aggregation of   *)
(* the log collection into chart, calendar and history views, the CSV      *)
(* export and import, and the handlers that write to the document store.   *)
(*                                                                         *)
(* Representation of JavaScript values                                     *)
(*   - a string is a sequence of one-character strings (the characters     *)
(*     that occur are pairwise distinct to TLC);                           *)
(*   - a number is a record [t |-> "num", v |-> n] where n counts tenths   *)
(*     (62.5 is v = 625), NaN is [t |-> "nan"], undefined is "undef", and  *)
(*     a string value is [t |-> "str", s |-> <<...>>];                      *)
(*   - an instant (a Date) is a count of minutes since 1970-01-01T00:00Z;  *)
(*     an invalid Date is the value InvalidDate;                           *)
(*   - arithmetic is exact decimal arithmetic: the binary rounding of      *)
(*     IEEE doubles is not modelled.                                       *)
(***************************************************************************)
EXTENDS Integers, Sequences, FiniteSets, TLC

VARIABLES
  \* ---- React state of App (useState)
  user,              \* "null" or the uid of the signed-in user
  logs,              \* the last snapshot of the logs collection
  exercises,         \* the effective exercise list
  activeTab,
  recordDate,        \* value of the date input, "YYYY-MM-DD" or ""
  selectedExercise,
  weight, reps,      \* values of the two number inputs
  importFile,        \* the file chosen for import, or NoFile
  importStatus,
  importResult,
  showImportModal,
  newExerciseName,   \* value of the text input of the add-exercise form
  showAddExercise,
  deleteTarget,      \* the record the delete modal is about, or NoTarget
  showDeleteModal,
  \* ---- the environment
  storeLogs,         \* documents of the logs collection, in creation order
  nextId,            \* number of documents created so far
  quota,             \* how many more writes the store accepts in this run
  download,          \* the CSV file the last export saved, or NoFile
  tz,                \* the client's time zone, minutes east of UTC
  storeCustom,       \* customExercises of the settings/config document
  \* ---- handlers suspended at an await
  saves,             \* payloads of handleSaveLog calls awaiting addDoc
  imp,               \* the executeImport call in flight
  impTrace,          \* history: what the import in flight did with each data line
  adds,              \* handleAddExercise calls awaiting setDoc
  deletes,           \* confirmDelete calls awaiting deleteDoc
  \* ---- the pure-function harness of calculate1RM
  calcW, calcR, calcOut, calcPc

formVars == <<recordDate, selectedExercise, weight, reps>>
importVars == <<importFile, importStatus, importResult, showImportModal>>
appVars == <<user, logs, exercises, activeTab, formVars, importVars>>
envVars == <<storeLogs, nextId, quota, download, tz>>
asyncVars == <<saves, imp, impTrace>>
calcVars == <<calcW, calcR, calcOut, calcPc>>
registryVars == <<newExerciseName, showAddExercise, storeCustom, adds>>
deleteVars == <<deleteTarget, showDeleteModal, deletes>>
vars == <<appVars, envVars, asyncVars, calcVars, registryVars, deleteVars>>

-----------------------------------------------------------------------------
(* JavaScript values                                                       *)

Num(n) == [t |-> "num", v |-> n, s |-> <<>>]
NaN == [t |-> "nan", v |-> 0, s |-> <<>>]
Undefined == [t |-> "undef", v |-> 0, s |-> <<>>]
Str(chars) == [t |-> "str", v |-> 0, s |-> chars]

\* the number n of the source text, as a count of tenths
Whole(n) == Num(n * 10)

DigitChars == <<"0", "1", "2", "3", "4", "5", "6", "7", "8", "9">>
IsDigit(c) == \E i \in 1..10 : DigitChars[i] = c
DigitVal(c) == (CHOOSE i \in 1..10 : DigitChars[i] = c) - 1
IsSpace(c) == c \in {" ", "\t", "\r", "\n"}

\* the longest prefix of s made of digits
RECURSIVE DigitRun(_)
DigitRun(s) ==
  IF s = <<>> \/ ~IsDigit(Head(s)) THEN <<>>
  ELSE <<Head(s)>> \o DigitRun(Tail(s))

\* the value of a run of digits
RECURSIVE DigitsValue(_)
DigitsValue(ds) ==
  IF ds = <<>> THEN 0
  ELSE DigitsValue(SubSeq(ds, 1, Len(ds) - 1)) * 10 + DigitVal(ds[Len(ds)])

Drop(s, n) == SubSeq(s, n + 1, Len(s))

RECURSIVE TrimStart(_)
TrimStart(s) ==
  IF s # <<>> /\ IsSpace(Head(s)) THEN TrimStart(Tail(s)) ELSE s

RECURSIVE TrimEnd(_)
TrimEnd(s) ==
  IF s # <<>> /\ IsSpace(s[Len(s)]) THEN TrimEnd(SubSeq(s, 1, Len(s) - 1)) ELSE s

\* String.prototype.trim
Trim(s) == TrimEnd(TrimStart(s))

\* the sign, the integer digits, the fraction digits of the decimal literal that
\* starts s, and what follows it (the exponent part and Infinity are outside the
\* alphabet of the model)
DecimalPrefix(s) ==
  LET neg == s # <<>> /\ Head(s) = "-"
      signed == s # <<>> /\ Head(s) \in {"-", "+"}
      body == IF signed THEN Tail(s) ELSE s
      ip == DigitRun(body)
      afterInt == Drop(body, Len(ip))
      hasDot == afterInt # <<>> /\ Head(afterInt) = "."
      fp == IF hasDot THEN DigitRun(Tail(afterInt)) ELSE <<>>
      \* "5." is the literal 5; "." alone, or ".x", is no literal
      dotTaken == hasDot /\ (ip # <<>> \/ fp # <<>>)
      rest == IF dotTaken THEN Drop(afterInt, 1 + Len(fp)) ELSE afterInt
  IN [neg |-> neg, ip |-> ip, fp |-> IF dotTaken THEN fp ELSE <<>>,
      ok |-> ip # <<>> \/ fp # <<>>, rest |-> rest]

\* the value, in tenths, of a decimal literal (one fraction digit is kept)
DecimalValue(p) ==
  LET mag == DigitsValue(p.ip) * 10 + (IF p.fp = <<>> THEN 0 ELSE DigitVal(p.fp[1]))
  IN Num(IF p.neg THEN 0 - mag ELSE mag)

\* parseFloat(string): the longest decimal literal after leading white space
parseFloat(s) ==
  LET p == DecimalPrefix(TrimStart(s))
  IN IF p.ok THEN DecimalValue(p) ELSE NaN

\* parseInt(string), radix 10: sign and digits after leading white space
parseInt(s) ==
  LET t == TrimStart(s)
      neg == t # <<>> /\ Head(t) = "-"
      body == IF t # <<>> /\ Head(t) \in {"-", "+"} THEN Tail(t) ELSE t
      ds == DigitRun(body)
  IN IF ds = <<>> THEN NaN
     ELSE Whole(IF neg THEN 0 - DigitsValue(ds) ELSE DigitsValue(ds))

isNaN(x) == x.t = "nan"

\* ToNumber: the implicit conversion of an operand of * and /
ToNumber(x) ==
  CASE x.t = "num" -> x
    [] x.t = "nan" -> NaN
    [] x.t = "undef" -> NaN
    [] x.t = "str" ->
         LET t == Trim(x.s)
             p == DecimalPrefix(t)
         IN IF t = <<>> THEN Num(0)
            ELSE IF p.ok /\ p.rest = <<>> THEN DecimalValue(p)
            ELSE NaN

\* ToBoolean: what the ! operator and an if test see
Truthy(x) ==
  CASE x.t = "num" -> x.v # 0
    [] x.t = "nan" -> FALSE
    [] x.t = "undef" -> FALSE
    [] x.t = "str" -> x.s # <<>>

\* Math.round of the rational p / q (q > 0): the nearest integer, a tie going up
MathRound(p, q) == (2 * p + q) \div (2 * q)

-----------------------------------------------------------------------------
(* Strings: split, join, number to string                                  *)

\* the decimal digits of n >= 0
RECURSIVE NatToChars(_)
NatToChars(n) ==
  IF n < 10 THEN <<DigitChars[n + 1]>>
  ELSE NatToChars(n \div 10) \o <<DigitChars[(n % 10) + 1]>>

\* n >= 0 written with at least two digits ('2-digit')
Pad2(n) == IF n < 10 THEN <<"0">> \o NatToChars(n) ELSE NatToChars(n)

\* Number.prototype.toString of a number held in tenths: 625 is "62.5", 1000 is "100"
NumberToString(x) ==
  IF x.t = "nan" THEN <<"N", "a", "N">>
  ELSE LET mag == IF x.v < 0 THEN 0 - x.v ELSE x.v
           int == NatToChars(mag \div 10)
           frac == IF mag % 10 = 0 THEN <<>> ELSE <<".", DigitChars[(mag % 10) + 1]>>
       IN (IF x.v < 0 THEN <<"-">> ELSE <<>>) \o int \o frac

\* the position of the first sep in s, or 0
RECURSIVE IndexOf(_, _, _)
IndexOf(s, sep, from) ==
  IF from > Len(s) THEN 0
  ELSE IF s[from] = sep THEN from
  ELSE IndexOf(s, sep, from + 1)

\* String.prototype.split(sep) for a one-character separator
RECURSIVE Split(_, _)
Split(s, sep) ==
  LET i == IndexOf(s, sep, 1)
  IN IF i = 0 THEN <<s>>
     ELSE <<SubSeq(s, 1, i - 1)>> \o Split(Drop(s, i), sep)

\* Array.prototype.join(sep) of an array of strings
RECURSIVE Join(_, _)
Join(parts, sep) ==
  IF parts = <<>> THEN <<>>
  ELSE IF Len(parts) = 1 THEN parts[1]
  ELSE parts[1] \o <<sep>> \o Join(Tail(parts), sep)

-----------------------------------------------------------------------------
(* Dates.  An instant is a count of minutes since the epoch; the client's  *)
(* time zone is a fixed offset of tz minutes east of UTC.                  *)

Date(t) == [valid |-> TRUE, t |-> t]
InvalidDate == [valid |-> FALSE, t |-> 0]

MinutesPerDay == 24 * 60

\* the day number (days since 1970-01-01) of a civil date of the proleptic
\* Gregorian calendar
DaysFromCivil(y, m, d) ==
  LET yy == IF m <= 2 THEN y - 1 ELSE y
      era == yy \div 400
      yoe == yy - era * 400
      mp == IF m > 2 THEN m - 3 ELSE m + 9
      doy == (153 * mp + 2) \div 5 + d - 1
      doe == yoe * 365 + yoe \div 4 - yoe \div 100 + doy
  IN era * 146097 + doe - 719468

\* the civil date <<year, month, day>> of a day number
CivilFromDays(z) ==
  LET zz == z + 719468
      era == zz \div 146097
      doe == zz - era * 146097
      yoe == (doe - doe \div 1460 + doe \div 36524 - doe \div 146096) \div 365
      doy == doe - (365 * yoe + yoe \div 4 - yoe \div 100)
      mp == (5 * doy + 2) \div 153
      d == doy - (153 * mp + 2) \div 5 + 1
      m == IF mp < 10 THEN mp + 3 ELSE mp - 9
      y == yoe + era * 400
  IN <<IF m <= 2 THEN y + 1 ELSE y, m, d>>

DaysInMonth(y, m) ==
  IF m = 12 THEN 31 ELSE DaysFromCivil(y, m + 1, 1) - DaysFromCivil(y, m, 1)

\* the local calendar day <<year, month, day>> of an instant in the zone zone
LocalDay(t, zone) == CivilFromDays((t + zone) \div MinutesPerDay)

\* the local minute of the day of an instant
LocalMinuteOfDay(t, zone) == (t + zone) % MinutesPerDay

\* Date.prototype.toISOString of a valid Date: the UTC fields
\* <<year, month, day, hour, minute>> that the string YYYY-MM-DDTHH:mm:00.000Z
\* spells (seconds and milliseconds are always zero here)
toISOString(date) ==
  LET ymd == CivilFromDays(date.t \div MinutesPerDay)
      mod == date.t % MinutesPerDay
  IN <<ymd[1], ymd[2], ymd[3], mod \div 60, mod % 60>>

\* new Date(isoString) of a string toISOString produced
DateFromISO(iso) ==
  Date(DaysFromCivil(iso[1], iso[2], iso[3]) * MinutesPerDay + iso[4] * 60 + iso[5])

AllDigits(s) == s # <<>> /\ \A i \in 1..Len(s) : IsDigit(s[i])

\* new Date(string) of a date-only string: "YYYY-MM-DD" is midnight UTC,
\* "YYYY/MM/DD" is midnight local time, anything else in the alphabet of the
\* model is an invalid Date
DateParse(s, zone) ==
  LET wellFormed(sep) ==
        /\ Len(s) = 10
        /\ s[5] = sep /\ s[8] = sep
        /\ AllDigits(SubSeq(s, 1, 4)) /\ AllDigits(SubSeq(s, 6, 7))
        /\ AllDigits(SubSeq(s, 9, 10))
      y == DigitsValue(SubSeq(s, 1, 4))
      m == DigitsValue(SubSeq(s, 6, 7))
      d == DigitsValue(SubSeq(s, 9, 10))
      inRange == m \in 1..12 /\ d \in 1..DaysInMonth(y, m)
  IN IF wellFormed("-") /\ inRange
       THEN Date(DaysFromCivil(y, m, d) * MinutesPerDay)
     ELSE IF wellFormed("/") /\ inRange
       THEN Date(DaysFromCivil(y, m, d) * MinutesPerDay - zone)
     ELSE InvalidDate

\* Date.prototype.setHours(h, m) in local time
setHours(date, h, m, zone) ==
  IF ~date.valid THEN InvalidDate
  ELSE Date(((date.t + zone) \div MinutesPerDay) * MinutesPerDay + h * 60 + m - zone)

InvalidDateString == <<"I", "n", "v", "a", "l", "i", "d", " ", "D", "a", "t", "e">>

\* toLocaleDateString('ja-JP', {year: 'numeric', month: '2-digit', day: '2-digit'})
toLocaleDateString(date, zone) ==
  IF ~date.valid THEN InvalidDateString
  ELSE LET ymd == LocalDay(date.t, zone)
       IN NatToChars(ymd[1]) \o <<"/">> \o Pad2(ymd[2]) \o <<"/">> \o Pad2(ymd[3])

-----------------------------------------------------------------------------
(* The 1RM estimator                                                       *)

\* a plausible slip: Math.floor in place of Math.round
calculate1RM_floor(w, r) ==
  IF ~Truthy(w) \/ ~Truthy(r) THEN Num(0)
  ELSE LET wn == ToNumber(w)
           rn == ToNumber(r)
       IN IF isNaN(wn) \/ isNaN(rn) THEN NaN
          ELSE Num((wn.v * (300 + rn.v)) \div 300)

\* calculate1RM(w, r): with W and R the operands in tenths, w * (1 + r / 30) * 10
\* is W * (300 + R) / 300, and the result Math.round(..) / 10 is that many tenths
calculate1RM(w, r) ==
  IF ~Truthy(w) \/ ~Truthy(r) THEN Num(0)
  ELSE LET wn == ToNumber(w)
           rn == ToNumber(r)
       IN IF isNaN(wn) \/ isNaN(rn) THEN NaN
          ELSE Num(MathRound(wn.v * (300 + rn.v), 300))

-----------------------------------------------------------------------------
(* Constants of the program and the records of the logs collection         *)

INITIAL_EXERCISES ==
  << <<"ベ", "ン", "チ", "プ", "レ", "ス">>,
     <<"ス", "ク", "ワ", "ッ", "ト">>,
     <<"デ", "ッ", "ド", "リ", "フ", "ト">>,
     <<"シ", "ョ", "ル", "ダ", "ー", "プ", "レ", "ス">> >>

\* the payload handleSaveLog and executeImport hand to addDoc (createdAt, a
\* server time stamp that nothing reads, is left out)
Payload(date, exercise, w, r, oneRM) ==
  [date |-> date, exercise |-> exercise, weight |-> w, reps |-> r, oneRM |-> oneRM]

\* a document of the snapshot: { id: doc.id, ...doc.data() }
Doc(id, p) ==
  [id |-> id, date |-> p.date, exercise |-> p.exercise, weight |-> p.weight,
   reps |-> p.reps, oneRM |-> p.oneRM]

\* no file chosen (importFile === null), and a file with its text: the text is
\* what FileReader.readAsText yields, the byte order mark decoded away.  The
\* field of is history: the collection an exported file was written from.
NoFile == [present |-> FALSE, text |-> <<>>, exported |-> FALSE, of |-> <<>>]
File(text) == [present |-> TRUE, text |-> text, exported |-> FALSE, of |-> <<>>]
ExportedFile(text, from) == [present |-> TRUE, text |-> text, exported |-> TRUE, of |-> from]

NoPayload == [date |-> <<>>, exercise |-> <<>>, weight |-> NaN, reps |-> NaN, oneRM |-> NaN]

\* no executeImport call in flight
ImportIdle ==
  [pc |-> "idle", lines |-> <<>>, success |-> 0, error |-> 0, payload |-> NoPayload]

\* the history of an import: the file read, the size of the collection when it
\* started, and what became of each data line
NoTrace == [file |-> NoFile, base |-> 0, rows |-> <<>>]

\* getTodayString() on the day the model runs
TodayString == <<"2", "0", "2", "4", "-", "0", "1", "-", "1", "0">>

Range(f) == {f[i] : i \in DOMAIN f}

\* a record without a date field
NoDate == <<>>

\* new Date(log.date)
DateOf(d) == IF d = NoDate THEN InvalidDate ELSE DateFromISO(d)

\* formatDate(date)
formatDate(d, zone) ==
  IF d = NoDate THEN <<>> ELSE toLocaleDateString(DateOf(d), zone)

\* a < b for two date fields, as the ISO strings compare
RECURSIVE IsoLess(_, _)
IsoLess(a, b) ==
  IF a = <<>> \/ b = <<>> THEN FALSE
  ELSE IF Head(a) # Head(b) THEN Head(a) < Head(b)
  ELSE IsoLess(Tail(a), Tail(b))

\* a < b for two Number values (false when either is NaN)
NumLess(a, b) == a.t = "num" /\ b.t = "num" /\ a.v < b.v

-----------------------------------------------------------------------------
(* The aggregation engine                                                  *)

\* Array.prototype.sort with the comparator (a, b) => new Date(a.date) - new Date(b.date):
\* a stable sort, ascending by instant
RECURSIVE InsertByDate(_, _)
InsertByDate(sorted, x) ==
  IF sorted = <<>> THEN <<x>>
  ELSE IF DateOf(sorted[Len(sorted)].date).t <= DateOf(x.date).t THEN Append(sorted, x)
  ELSE Append(InsertByDate(SubSeq(sorted, 1, Len(sorted) - 1), x), sorted[Len(sorted)])

RECURSIVE SortByDateAsc(_)
SortByDateAsc(s) ==
  IF s = <<>> THEN <<>>
  ELSE InsertByDate(SortByDateAsc(SubSeq(s, 1, Len(s) - 1)), s[Len(s)])

\* an object used as a dictionary: its entries <<key, value>> in insertion order
\* (no key of the model is an array index, so insertion order is the order of
\* Object.values and Object.entries)
DictHas(dict, k) == \E i \in 1..Len(dict) : dict[i][1] = k
DictGet(dict, k) == dict[CHOOSE i \in 1..Len(dict) : dict[i][1] = k][2]
DictPut(dict, k, v) ==
  IF DictHas(dict, k)
  THEN [i \in 1..Len(dict) |-> IF dict[i][1] = k THEN <<k, v>> ELSE dict[i]]
  ELSE Append(dict, <<k, v>>)
DictValues(dict) == [i \in 1..Len(dict) |-> dict[i][2]]

\* d.split('/').slice(1).join('/'): the month and day of a formatted date
MonthDayLabel(d) == Join(Tail(Split(d, "/")), "/")

\* the forEach of chartData, first revision: dailyMax is keyed by the whole
\* formatted date and the point is labelled by month and day
RECURSIVE DailyMax(_, _, _)
DailyMax(filtered, dailyMax, zone) ==
  IF filtered = <<>> THEN dailyMax
  ELSE LET log == Head(filtered)
           d == formatDate(log.date, zone)
           next == IF ~DictHas(dailyMax, d) \/ NumLess(DictGet(dailyMax, d).oneRM, log.oneRM)
                   THEN DictPut(dailyMax, d, [date |-> MonthDayLabel(d), oneRM |-> log.oneRM])
                   ELSE dailyMax
       IN DailyMax(Tail(filtered), next, zone)

\* a plausible slip: the records are not sorted before they are grouped
chartData_unsorted(allLogs, selected, zone) ==
  DictValues(DailyMax(SelectSeq(allLogs, LAMBDA log : log.exercise = selected), <<>>, zone))

\* chartData of the first revision (src/src/App.jsx, lines 306-318)
chartData(allLogs, selected, zone) ==
  LET filtered == SortByDateAsc(SelectSeq(allLogs, LAMBDA log : log.exercise = selected))
  IN DictValues(DailyMax(filtered, <<>>, zone))

\* the forEach of chartData, later revisions: dailyMax is keyed by month and day
RECURSIVE DailyMaxByMonthDay(_, _, _)
DailyMaxByMonthDay(filtered, dailyMax, zone) ==
  IF filtered = <<>> THEN dailyMax
  ELSE LET l == Head(filtered)
           d == MonthDayLabel(formatDate(l.date, zone))
           next == IF ~DictHas(dailyMax, d) \/ NumLess(DictGet(dailyMax, d).oneRM, l.oneRM)
                   THEN DictPut(dailyMax, d, [date |-> d, oneRM |-> l.oneRM])
                   ELSE dailyMax
       IN DailyMaxByMonthDay(Tail(filtered), next, zone)

\* chartData of the later revisions (src/src/App.jsx, lines 695-704, and
\* src/unnamed/part_000, lines 178-187)
chartDataRev2(allLogs, selected, zone) ==
  LET filtered == SortByDateAsc(SelectSeq(allLogs, LAMBDA l : l.exercise = selected))
  IN DictValues(DailyMaxByMonthDay(filtered, <<>>, zone))

\* a plausible slip: the chart is drawn from the first point on
ChartShown_fromOne(data) == ~(Len(data) < 1)

\* the analytics tab draws the chart unless chartData.length < 2
ChartShown(data) == ~(Len(data) < 2)

\* a plausible slip: the day is cut from the ISO string, which is the UTC day
trainingDays_utc(allLogs, zone) ==
  {formatDate(allLogs[i].date, 0) : i \in 1..Len(allLogs)}

\* trainingDays: new Set(logs.map(log => formatDate(log.date)))
trainingDays(allLogs, zone) ==
  {formatDate(allLogs[i].date, zone) : i \in 1..Len(allLogs)}

\* renderCalendar: the cell of day day of the displayed month is marked when
\* dateStr && trainingDays.has(dateStr)
CellTrained(days, year, month, day, zone) ==
  LET dateStr == toLocaleDateString(
                   Date(DaysFromCivil(year, month, day) * MinutesPerDay - zone), zone)
  IN dateStr # <<>> /\ dateStr \in days

\* the forEach of groupedLogs: the records of each formatted date, in the order
\* of logs
RECURSIVE GroupByDate(_, _, _)
GroupByDate(rest, groups, zone) ==
  IF rest = <<>> THEN groups
  ELSE LET log == Head(rest)
           d == formatDate(log.date, zone)
           items == IF DictHas(groups, d) THEN DictGet(groups, d) ELSE <<>>
       IN GroupByDate(Tail(rest), DictPut(groups, d, Append(items, log)), zone)

\* groupedLogs, as entries <<date, items>>
groupedLogs(allLogs, zone) == GroupByDate(allLogs, <<>>, zone)

\* a plausible slip: the operands of the subtraction exchanged
KeepsBefore_ascending(a, b, zone) ==
  LET da == DateParse(a[1], zone)
      db == DateParse(b[1], zone)
  IN ~da.valid \/ ~db.valid \/ da.t - db.t <= 0

\* the comparator (a, b) => new Date(b[0]) - new Date(a[0]) of the history tab
\* is not positive for a before b (NaN, of an invalid Date, counts as zero)
KeepsBefore(a, b, zone) ==
  LET da == DateParse(a[1], zone)
      db == DateParse(b[1], zone)
  IN ~da.valid \/ ~db.valid \/ db.t - da.t <= 0

\* Array.prototype.sort of the entries with that comparator: a stable sort
RECURSIVE InsertEntry(_, _, _)
InsertEntry(sorted, x, zone) ==
  IF sorted = <<>> THEN <<x>>
  ELSE IF KeepsBefore(sorted[Len(sorted)], x, zone) THEN Append(sorted, x)
  ELSE Append(InsertEntry(SubSeq(sorted, 1, Len(sorted) - 1), x, zone), sorted[Len(sorted)])

RECURSIVE SortEntries(_, _)
SortEntries(entries, zone) ==
  IF entries = <<>> THEN <<>>
  ELSE InsertEntry(SortEntries(SubSeq(entries, 1, Len(entries) - 1), zone),
                   entries[Len(entries)], zone)

\* the groups of the history tab, in the order they are rendered
historyGroups(allLogs, zone) == SortEntries(groupedLogs(allLogs, zone), zone)

-----------------------------------------------------------------------------
(* The store and the subscriptions                                         *)

MaxWrites == 2

\* query(logsRef, orderBy('date', 'desc')): storeLogs is kept in document id
\* order, which breaks the ties of the query
RECURSIVE InsertByDateDesc(_, _)
InsertByDateDesc(sorted, x) ==
  IF sorted = <<>> THEN <<x>>
  ELSE IF ~IsoLess(sorted[Len(sorted)].date, x.date) THEN Append(sorted, x)
  ELSE Append(InsertByDateDesc(SubSeq(sorted, 1, Len(sorted) - 1), x), sorted[Len(sorted)])

RECURSIVE QueryLogs(_)
QueryLogs(docs) ==
  IF docs = <<>> THEN <<>>
  ELSE InsertByDateDesc(QueryLogs(SubSeq(docs, 1, Len(docs) - 1)), docs[Len(docs)])

\* onAuthStateChanged callback: setUser(currentUser); the data sync effect then
\* subscribes to the collections of that user
OnAuthStateChanged(currentUser) ==
  /\ user' = currentUser
  /\ UNCHANGED <<logs, exercises, activeTab, formVars, importVars, envVars, asyncVars,
                 calcVars, registryVars, deleteVars>>

\* the logs snapshot callback: setLogs(fetchedLogs)
OnLogsSnapshot ==
  /\ user # "null"
  /\ logs' = QueryLogs(storeLogs)
  /\ UNCHANGED <<user, exercises, activeTab, formVars, importVars, envVars, asyncVars,
                 calcVars, registryVars, deleteVars>>

\* onChange of the exercise select: setSelectedExercise(e.target.value)
SetSelectedExercise(e) ==
  /\ e \in Range(exercises)
  /\ selectedExercise' = e
  /\ UNCHANGED <<user, logs, exercises, activeTab, recordDate, weight, reps,
                 importVars, envVars, asyncVars, calcVars, registryVars, deleteVars>>

\* the NavBtn handlers: setActiveTab(tab)
SetActiveTab(tab) ==
  /\ activeTab' = tab
  /\ UNCHANGED <<user, logs, exercises, formVars, importVars, envVars, asyncVars,
                 calcVars, registryVars, deleteVars>>

\* onChange of the inputs of the record form
SetRecordDate(value) ==
  /\ recordDate' = value
  /\ UNCHANGED <<user, logs, exercises, activeTab, selectedExercise, weight, reps,
                 importVars, envVars, asyncVars, calcVars, registryVars, deleteVars>>

SetWeight(value) ==
  /\ weight' = value
  /\ UNCHANGED <<user, logs, exercises, activeTab, recordDate, selectedExercise, reps,
                 importVars, envVars, asyncVars, calcVars, registryVars, deleteVars>>

SetReps(value) ==
  /\ reps' = value
  /\ UNCHANGED <<user, logs, exercises, activeTab, recordDate, selectedExercise, weight,
                 importVars, envVars, asyncVars, calcVars, registryVars, deleteVars>>

-----------------------------------------------------------------------------
(* handleSaveLog                                                           *)

MaxPendingSaves == 1

\* a plausible slip: oneRM computed from the raw form strings
SavePayload_rawStrings(targetDate) ==
  Payload(toISOString(targetDate), selectedExercise,
          parseFloat(weight), parseInt(reps),
          calculate1RM(Str(weight), Str(reps)))

\* the object literal handed to addDoc
SavePayload(targetDate) ==
  Payload(toISOString(targetDate), selectedExercise,
          parseFloat(weight), parseInt(reps),
          calculate1RM(parseFloat(weight), parseInt(reps)))

\* a plausible slip: the form is cleared and the tab switched before the await
HandleSaveLog_clearsAtOnce(hour, minute) ==
  IF weight = <<>> \/ reps = <<>> \/ user = "null"
  THEN UNCHANGED vars
  ELSE LET targetDate == setHours(DateParse(recordDate, tz), hour, minute, tz)
       IN IF ~targetDate.valid
          THEN UNCHANGED vars
          ELSE /\ Len(saves) < MaxPendingSaves
               /\ saves' = Append(saves, SavePayload(targetDate))
               /\ weight' = <<>>
               /\ reps' = <<>>
               /\ activeTab' = "history"
               /\ UNCHANGED <<user, logs, exercises, recordDate, selectedExercise,
                              importVars, envVars, imp, impTrace, calcVars,
                              registryVars, deleteVars>>

\* handleSaveLog up to its await; hour and minute are the local time of the
\* click.  An invalid targetDate makes toISOString throw a RangeError inside the
\* try block, which the catch logs.
HandleSaveLog(hour, minute) ==
  IF weight = <<>> \/ reps = <<>> \/ user = "null"
  THEN UNCHANGED vars
  ELSE LET targetDate == setHours(DateParse(recordDate, tz), hour, minute, tz)
       IN IF ~targetDate.valid
          THEN UNCHANGED vars
          ELSE /\ Len(saves) < MaxPendingSaves
               /\ saves' = Append(saves, SavePayload(targetDate))
               /\ UNCHANGED <<appVars, envVars, imp, impTrace, calcVars, registryVars, deleteVars>>

RemoveAt(s, i) == SubSeq(s, 1, i - 1) \o SubSeq(s, i + 1, Len(s))

\* a plausible slip: the new record is also put in front of logs at once
SaveResolved_optimistic(i) ==
  /\ i \in 1..Len(saves)
  /\ quota > 0
  /\ storeLogs' = Append(storeLogs, Doc(nextId + 1, saves[i]))
  /\ nextId' = nextId + 1
  /\ quota' = quota - 1
  /\ saves' = RemoveAt(saves, i)
  /\ weight' = <<>>
  /\ reps' = <<>>
  /\ activeTab' = "history"
  /\ logs' = <<Doc(nextId + 1, saves[i])>> \o logs
  /\ UNCHANGED <<user, exercises, recordDate, selectedExercise, importVars,
                 download, tz, imp, impTrace, calcVars, registryVars, deleteVars>>

\* addDoc resolves: the document is in the collection, and handleSaveLog
\* resumes with setWeight(""), setReps(""), setActiveTab('history')
SaveResolved(i) ==
  /\ i \in 1..Len(saves)
  /\ quota > 0
  /\ storeLogs' = Append(storeLogs, Doc(nextId + 1, saves[i]))
  /\ nextId' = nextId + 1
  /\ quota' = quota - 1
  /\ saves' = RemoveAt(saves, i)
  /\ weight' = <<>>
  /\ reps' = <<>>
  /\ activeTab' = "history"
  /\ UNCHANGED <<user, logs, exercises, recordDate, selectedExercise, importVars,
                 download, tz, imp, impTrace, calcVars, registryVars, deleteVars>>

\* addDoc rejects: the catch block logs the error
SaveRejected(i) ==
  /\ i \in 1..Len(saves)
  /\ saves' = RemoveAt(saves, i)
  /\ UNCHANGED <<appVars, envVars, imp, impTrace, calcVars, registryVars, deleteVars>>

-----------------------------------------------------------------------------
(* CSV export and import                                                   *)

\* the header line; "U+7A2E" and "U+6570" each stand for the one character of
\* that code point
CsvHeader ==
  Join(<< <<"日", "付">>, <<"U+7A2E", "目">>, <<"重", "量", "(", "k", "g", ")">>,
          <<"回", "U+6570">>, <<"推", "定", "1", "R", "M", "(", "k", "g", ")">> >>, ",")

\* a plausible slip: the exercise column written after the numbers
CsvRow_exerciseLast(log, zone) ==
  Join(<<formatDate(log.date, zone), NumberToString(log.weight),
         NumberToString(log.reps), log.exercise, NumberToString(log.oneRM)>>, ",")

\* [formatDate(log.date), log.exercise, log.weight, log.reps, log.oneRM].join(",")
CsvRow(log, zone) ==
  Join(<<formatDate(log.date, zone), log.exercise, NumberToString(log.weight),
         NumberToString(log.reps), NumberToString(log.oneRM)>>, ",")

\* a plausible slip: the rows written oldest first
CsvContent_oldestFirst(allLogs, zone) ==
  Join(<<CsvHeader>> \o [i \in 1..Len(allLogs) |->
                           CsvRow(allLogs[Len(allLogs) + 1 - i], zone)], "\n")

\* csvContent: the header and one row per record, joined by line feeds
CsvContent(allLogs, zone) ==
  Join(<<CsvHeader>> \o [i \in 1..Len(allLogs) |-> CsvRow(allLogs[i], zone)], "\n")

\* handleExportCSV, the button of the history tab (the import modal, when
\* shown, covers the screen): nothing for an empty collection, else the browser
\* saves the file
HandleExportCSV ==
  IF Len(logs) = 0
  THEN /\ activeTab = "history" /\ ~showImportModal
       /\ UNCHANGED vars
  ELSE /\ activeTab = "history" /\ ~showImportModal
       /\ download' = ExportedFile(CsvContent(logs, tz), logs)
       /\ UNCHANGED <<appVars, storeLogs, nextId, quota, tz, asyncVars, calcVars, registryVars, deleteVars>>

\* handleFileSelect with a chosen file; the file input is on the history tab
HandleFileSelect(file) ==
  /\ activeTab = "history" /\ ~showImportModal
  /\ file.present
  /\ importFile' = file
  /\ importStatus' = "idle"
  /\ showImportModal' = TRUE
  /\ UNCHANGED <<user, logs, exercises, activeTab, formVars, importResult, envVars,
                 asyncVars, calcVars, registryVars, deleteVars>>

\* the button of the import modal shown when the import is over
CloseImportModal ==
  /\ showImportModal
  /\ importStatus \in {"done", "error"}
  /\ showImportModal' = FALSE
  /\ UNCHANGED <<user, logs, exercises, activeTab, formVars, importFile, importStatus,
                 importResult, envVars, asyncVars, calcVars, registryVars, deleteVars>>

TraceRow(line, out, payload) == [line |-> line, out |-> out, payload |-> payload]

\* the test of executeImport on the weight and reps columns
RowNumbersParse(w, r) == ~isNaN(parseFloat(w)) /\ ~isNaN(parseInt(r))

\* the object literal executeImport hands to addDoc
ImportPayload(date, ex, w, r) ==
  Payload(toISOString(date), Trim(ex), parseFloat(w), parseInt(r),
          calculate1RM(parseFloat(w), parseInt(r)))

\* a plausible slip: addDoc called without await, the row counted at once
RECURSIVE RunImport_noAwait(_, _, _, _, _)
RunImport_noAwait(lines, success, error, rows, zone) ==
  IF lines = <<>>
  THEN [pc |-> "done", lines |-> <<>>, success |-> success, error |-> error,
        payload |-> NoPayload, rows |-> rows]
  ELSE LET line == Head(lines)
           cols == Split(Trim(line), ",")
       IN IF Len(cols) < 4
          THEN RunImport_noAwait(Tail(lines), success, error,
                                 Append(rows, TraceRow(line, "skipped", NoPayload)), zone)
          ELSE IF RowNumbersParse(cols[3], cols[4])
          THEN LET date == DateParse(cols[1], zone)
               IN IF ~date.valid
                  THEN [pc |-> "threw", lines |-> Tail(lines), success |-> success,
                        error |-> error, payload |-> NoPayload,
                        rows |-> Append(rows, TraceRow(line, "threw", NoPayload))]
                  ELSE RunImport_noAwait(Tail(lines), success + 1, error,
                         Append(rows, TraceRow(line, "issued",
                                ImportPayload(date, cols[2], cols[3], cols[4]))), zone)
          ELSE RunImport_noAwait(Tail(lines), success, error + 1,
                                 Append(rows, TraceRow(line, "error", NoPayload)), zone)

\* the for loop of executeImport from the line at the head of lines up to its
\* next await, its end, or the RangeError of toISOString on an invalid Date
RECURSIVE RunImport(_, _, _, _, _)
RunImport(lines, success, error, rows, zone) ==
  IF lines = <<>>
  THEN [pc |-> "done", lines |-> <<>>, success |-> success, error |-> error,
        payload |-> NoPayload, rows |-> rows]
  ELSE LET line == Head(lines)
           cols == Split(Trim(line), ",")
       IN IF Len(cols) < 4
          THEN RunImport(Tail(lines), success, error,
                         Append(rows, TraceRow(line, "skipped", NoPayload)), zone)
          ELSE IF RowNumbersParse(cols[3], cols[4])
          THEN LET date == DateParse(cols[1], zone)
               IN IF ~date.valid
                  THEN [pc |-> "threw", lines |-> Tail(lines), success |-> success,
                        error |-> error, payload |-> NoPayload,
                        rows |-> Append(rows, TraceRow(line, "threw", NoPayload))]
                  ELSE LET payload == ImportPayload(date, cols[2], cols[3], cols[4])
                       IN [pc |-> "await", lines |-> Tail(lines), success |-> success,
                           error |-> error, payload |-> payload,
                           rows |-> Append(rows, TraceRow(line, "issued", payload))]
          ELSE RunImport(Tail(lines), success, error + 1,
                         Append(rows, TraceRow(line, "error", NoPayload)), zone)

\* a plausible slip: the counts are reported from the catch block too
ImportContinues_reportsOnThrow(run) ==
  /\ impTrace' = [impTrace EXCEPT !.rows = run.rows]
  /\ CASE run.pc = "await" ->
            /\ imp' = [pc |-> "await", lines |-> run.lines, success |-> run.success,
                       error |-> run.error, payload |-> run.payload]
            /\ UNCHANGED <<importStatus, importResult>>
       [] run.pc = "done" ->
            /\ imp' = ImportIdle
            /\ importResult' = [success |-> run.success, error |-> run.error]
            /\ importStatus' = "done"
       [] run.pc = "threw" ->
            /\ imp' = ImportIdle
            /\ importResult' = [success |-> run.success, error |-> run.error + 1]
            /\ importStatus' = "error"

\* the state of App and of the import after a run of the loop
ImportContinues(run) ==
  /\ impTrace' = [impTrace EXCEPT !.rows = run.rows]
  /\ CASE run.pc = "await" ->
            /\ imp' = [pc |-> "await", lines |-> run.lines, success |-> run.success,
                       error |-> run.error, payload |-> run.payload]
            /\ UNCHANGED <<importStatus, importResult>>
       [] run.pc = "done" ->
            /\ imp' = ImportIdle
            /\ importResult' = [success |-> run.success, error |-> run.error]
            /\ importStatus' = "done"
       [] run.pc = "threw" ->
            /\ imp' = ImportIdle
            /\ importStatus' = "error"
            /\ UNCHANGED importResult

\* executeImport: the click on the import button, which the modal shows while
\* importStatus is 'idle'
ExecuteImport ==
  IF ~importFile.present \/ user = "null"
  THEN /\ showImportModal /\ importStatus = "idle"
       /\ UNCHANGED vars
  ELSE /\ showImportModal /\ importStatus = "idle"
       /\ importStatus' = "processing"
       /\ imp' = [ImportIdle EXCEPT !.pc = "reading"]
       /\ impTrace' = [file |-> importFile, base |-> Len(storeLogs), rows |-> <<>>]
       /\ UNCHANGED <<user, logs, exercises, activeTab, formVars, importFile,
                      importResult, showImportModal, envVars, saves, calcVars, registryVars, deleteVars>>

\* a plausible slip: the header line read as a data line
DataLines_all(lines) == lines

\* lines.slice(1): the lines after the header line
DataLines(lines) == Tail(lines)

\* reader.onload: the text is split into lines and the loop runs to its first await
ImportOnLoad ==
  /\ imp.pc = "reading"
  /\ LET lines == Split(impTrace.file.text, "\n")
     IN ImportContinues(RunImport(DataLines(lines), 0, 0, <<>>, tz))
  /\ UNCHANGED <<user, logs, exercises, activeTab, formVars, importFile,
                 showImportModal, envVars, saves, calcVars, registryVars, deleteVars>>

\* readAsText fails: the FileReader fires its error event, for which
\* executeImport registers no handler; nothing is set
ImportReadFailed ==
  /\ imp.pc = "reading"
  /\ imp' = ImportIdle
  /\ UNCHANGED <<appVars, envVars, saves, impTrace, calcVars, registryVars, deleteVars>>

MarkLast(rows, out) == [rows EXCEPT ![Len(rows)].out = out]

\* the addDoc of a row resolves: success++ and the loop goes on
ImportWriteResolved ==
  /\ imp.pc = "await"
  /\ quota > 0
  /\ storeLogs' = Append(storeLogs, Doc(nextId + 1, imp.payload))
  /\ nextId' = nextId + 1
  /\ quota' = quota - 1
  /\ ImportContinues(RunImport(imp.lines, imp.success + 1, imp.error,
                               MarkLast(impTrace.rows, "accepted"), tz))
  /\ UNCHANGED <<user, logs, exercises, activeTab, formVars, importFile,
                 showImportModal, download, tz, saves, calcVars, registryVars, deleteVars>>

\* a plausible slip: the rejected row is counted as an error and the loop goes on
ImportWriteRejected_goesOn ==
  /\ imp.pc = "await"
  /\ ImportContinues(RunImport(imp.lines, imp.success, imp.error + 1,
                               MarkLast(impTrace.rows, "rejected"), tz))
  /\ UNCHANGED <<user, logs, exercises, activeTab, formVars, importFile,
                 showImportModal, envVars, saves, calcVars, registryVars, deleteVars>>

\* the addDoc of a row rejects: the catch block sets the status to 'error'
ImportWriteRejected ==
  /\ imp.pc = "await"
  /\ imp' = ImportIdle
  /\ impTrace' = [impTrace EXCEPT !.rows = MarkLast(impTrace.rows, "rejected")]
  /\ importStatus' = "error"
  /\ UNCHANGED <<user, logs, exercises, activeTab, formVars, importFile, importResult,
                 showImportModal, envVars, saves, calcVars, registryVars, deleteVars>>

-----------------------------------------------------------------------------
(* The exercise registry: the settings subscription and handleAddExercise  *)

\* the settings/config document: absent or without customExercises, or with
\* the persisted list
NoConfig == [present |-> FALSE, names |-> <<>>]
Config(names) == [present |-> TRUE, names |-> names]

\* Array.from(new Set(list)): the first occurrence of each element, in order
RECURSIVE SetOrder(_, _)
SetOrder(list, seen) ==
  IF list = <<>> THEN seen
  ELSE IF Head(list) \in Range(seen) THEN SetOrder(Tail(list), seen)
       ELSE SetOrder(Tail(list), Append(seen, Head(list)))

\* a plausible slip: the two lists concatenated without the Set
MergeExercises_concat(custom) == INITIAL_EXERCISES \o custom

\* Array.from(new Set([...INITIAL_EXERCISES, ...customExercises]))
MergeExercises(custom) == SetOrder(INITIAL_EXERCISES \o custom, <<>>)

\* the settings snapshot callback: with a config document that has
\* customExercises, setExercises(merged list); else nothing
OnSettingsSnapshot ==
  /\ user # "null"
  /\ exercises' = IF storeCustom.present THEN MergeExercises(storeCustom.names)
                  ELSE exercises
  /\ UNCHANGED <<user, logs, activeTab, formVars, importVars, envVars, asyncVars,
                 calcVars, registryVars, deleteVars>>

\* the button next to the exercise select: setShowAddExercise(!showAddExercise)
ToggleAddExercise ==
  /\ activeTab = "record"
  /\ showAddExercise' = ~showAddExercise
  /\ UNCHANGED <<appVars, envVars, asyncVars, calcVars, newExerciseName, storeCustom,
                 adds, deleteVars>>

\* onChange of the text input of the add-exercise form
SetNewExerciseName(value) ==
  /\ activeTab = "record" /\ showAddExercise
  /\ newExerciseName' = value
  /\ UNCHANGED <<appVars, envVars, asyncVars, calcVars, showAddExercise, storeCustom,
                 adds, deleteVars>>

MaxPendingAdds == 1

\* a plausible slip: the whole effective list is persisted
CustomOnes_all == exercises

\* exercises.filter(e => !INITIAL_EXERCISES.includes(e))
CustomOnes == SelectSeq(exercises, LAMBDA e : e \notin Range(INITIAL_EXERCISES))

\* a plausible slip: the test on the name left out of the guard
AddAllowed_anyName == user # "null"

\* the guard of handleAddExercise
AddAllowed ==
  /\ newExerciseName # <<>>
  /\ newExerciseName \notin Range(exercises)
  /\ user # "null"

\* handleAddExercise up to its await (the button of the add-exercise form)
HandleAddExercise ==
  /\ activeTab = "record" /\ showAddExercise
  /\ IF AddAllowed
     THEN /\ Len(adds) < MaxPendingAdds
          /\ adds' = Append(adds, [custom |-> Append(CustomOnes, newExerciseName),
                                   name |-> newExerciseName])
          /\ UNCHANGED <<appVars, envVars, asyncVars, calcVars, newExerciseName,
                         showAddExercise, storeCustom, deleteVars>>
     ELSE UNCHANGED vars

\* setDoc resolves: the config document holds the new list, and
\* handleAddExercise resumes with setSelectedExercise(newExerciseName),
\* setNewExerciseName(""), setShowAddExercise(false)
AddResolved(i) ==
  /\ i \in 1..Len(adds)
  /\ quota > 0
  /\ quota' = quota - 1
  /\ storeCustom' = Config(adds[i].custom)
  /\ adds' = RemoveAt(adds, i)
  /\ selectedExercise' = adds[i].name
  /\ newExerciseName' = <<>>
  /\ showAddExercise' = FALSE
  /\ UNCHANGED <<user, logs, exercises, activeTab, recordDate, weight, reps, importVars,
                 storeLogs, nextId, download, tz, asyncVars, calcVars, deleteVars>>

\* setDoc rejects: the catch block logs the error
AddRejected(i) ==
  /\ i \in 1..Len(adds)
  /\ adds' = RemoveAt(adds, i)
  /\ UNCHANGED <<appVars, envVars, asyncVars, calcVars, newExerciseName,
                 showAddExercise, storeCustom, deleteVars>>

-----------------------------------------------------------------------------
(* confirmDelete                                                           *)

\* deleteTarget === null
NoTarget == Doc(0, NoPayload)

MaxPendingDeletes == 1

\* the bin button of a record of the history tab:
\* setDeleteTarget(log); setShowDeleteModal(true)
RequestDelete(i) ==
  /\ activeTab = "history" /\ ~showImportModal /\ ~showDeleteModal
  /\ i \in 1..Len(logs)
  /\ deleteTarget' = logs[i]
  /\ showDeleteModal' = TRUE
  /\ UNCHANGED <<appVars, envVars, asyncVars, calcVars, registryVars, deletes>>

\* the back button of the delete modal: setShowDeleteModal(false)
CancelDelete ==
  /\ showDeleteModal
  /\ showDeleteModal' = FALSE
  /\ UNCHANGED <<appVars, envVars, asyncVars, calcVars, registryVars, deleteTarget,
                 deletes>>

\* a plausible slip: the test on the user left out of the guard
DeleteAllowed_noUserTest == deleteTarget # NoTarget

\* the guard of confirmDelete
DeleteAllowed == deleteTarget # NoTarget /\ user # "null"

\* confirmDelete up to its await (the delete button of the modal)
ConfirmDelete ==
  /\ showDeleteModal
  /\ IF DeleteAllowed
     THEN /\ Len(deletes) < MaxPendingDeletes
          /\ deletes' = Append(deletes, deleteTarget.id)
          /\ UNCHANGED <<appVars, envVars, asyncVars, calcVars, registryVars,
                         deleteTarget, showDeleteModal>>
     ELSE UNCHANGED vars

\* the documents of the collection without the one of the given id
WithoutDoc(docs, id) == SelectSeq(docs, LAMBDA d : d.id # id)

\* deleteDoc resolves: the document is gone, and confirmDelete resumes with
\* setShowDeleteModal(false), setDeleteTarget(null)
DeleteResolved(i) ==
  /\ i \in 1..Len(deletes)
  /\ storeLogs' = WithoutDoc(storeLogs, deletes[i])
  /\ deletes' = RemoveAt(deletes, i)
  /\ showDeleteModal' = FALSE
  /\ deleteTarget' = NoTarget
  /\ UNCHANGED <<appVars, nextId, quota, download, tz, asyncVars, calcVars,
                 registryVars>>

\* deleteDoc rejects: the catch block logs the error, and the two statements
\* after it run all the same
DeleteRejected(i) ==
  /\ i \in 1..Len(deletes)
  /\ deletes' = RemoveAt(deletes, i)
  /\ showDeleteModal' = FALSE
  /\ deleteTarget' = NoTarget
  /\ UNCHANGED <<appVars, envVars, asyncVars, calcVars, registryVars>>

-----------------------------------------------------------------------------
(* The harness of the estimator: the operands are drawn from the values    *)
(* the program passes, and one step applies the function.                  *)

\* numbers as handleSaveLog and executeImport pass them (parseFloat, parseInt)
CalcNumbers ==
  {Num(n) : n \in {0, 5, 10, 30, 50, 80, 300, 625, 1000, -50, -300}} \cup {NaN}

\* raw form strings as the live preview passes them: the value of an
\* <input type="number"> is empty or a valid floating-point number
CalcStrings ==
  {Str(<<>>), Str(<<"0">>), Str(<<"5">>), Str(<<"1", "0", "0">>),
   Str(<<"6", "2", ".", "5">>), Str(<<".", "5">>), Str(<<"-", "5">>)}

\* a call passes two numbers (save, import) or two form strings (live preview)
CalcInputs == (CalcNumbers \X CalcNumbers) \cup (CalcStrings \X CalcStrings)

\* the state of App after its first render, before any event
AppIdle ==
  /\ user = "null"
  /\ logs = <<>>
  /\ exercises = INITIAL_EXERCISES
  /\ activeTab = "record"
  /\ recordDate = TodayString
  /\ selectedExercise = INITIAL_EXERCISES[1]
  /\ weight = <<>>
  /\ reps = <<>>
  /\ importFile = NoFile
  /\ importStatus = "idle"
  /\ importResult = [success |-> 0, error |-> 0]
  /\ showImportModal = FALSE
  /\ newExerciseName = <<>>
  /\ showAddExercise = FALSE
  /\ deleteTarget = NoTarget
  /\ showDeleteModal = FALSE

EnvIdle ==
  /\ storeLogs = <<>>
  /\ nextId = 0
  /\ quota = MaxWrites
  /\ download = NoFile
  /\ storeCustom = NoConfig

AsyncIdle ==
  /\ saves = <<>>
  /\ imp = ImportIdle
  /\ impTrace = NoTrace
  /\ adds = <<>>
  /\ deletes = <<>>

CalcIdle ==
  /\ calcW = Undefined
  /\ calcR = Undefined
  /\ calcOut = Undefined
  /\ calcPc = "idle"

CalcInit ==
  /\ AppIdle /\ EnvIdle /\ AsyncIdle
  /\ tz = 0
  /\ \E p \in CalcInputs : calcW = p[1] /\ calcR = p[2]
  /\ calcOut = Undefined
  /\ calcPc = "call"

CalcApply ==
  /\ calcPc = "call"
  /\ calcOut' = calculate1RM(calcW, calcR)
  /\ calcPc' = "done"
  /\ UNCHANGED <<calcW, calcR, appVars, envVars, asyncVars, registryVars, deleteVars>>

CalcNext == CalcApply

CalcSpec == CalcInit /\ [][CalcNext]_vars

-----------------------------------------------------------------------------
(* The aggregation harness: the logs subscription has delivered a snapshot *)
(* (any collection of records up to MaxChartLogs, ordered by date          *)
(* descending as the query asks), and the user selects exercises.          *)

MaxChartLogs == 3

TimeZones == {0 - 300, 0, 540}

\* the exercises offered in the two select elements that the model chooses from
ExerciseChoices == {INITIAL_EXERCISES[1], INITIAL_EXERCISES[2]}

\* date fields of stored records: a day of 2023, and three instants around the
\* same month and day of 2024, the second of which is on the 11th in Tokyo
ChartDates ==
  {<<2023, 1, 11, 10, 0>>, <<2024, 1, 10, 10, 0>>, <<2024, 1, 10, 20, 0>>,
   <<2024, 1, 11, 10, 0>>}

\* records as handleSaveLog creates them: 80 kg and 100 kg of the first
\* exercise at each date, and one record of the second exercise
ChartSets ==
  ({INITIAL_EXERCISES[1]} \X ChartDates \X {80, 100})
    \cup {<<INITIAL_EXERCISES[2], <<2024, 1, 10, 10, 0>>, 80>>}

ChartRecords ==
  {Payload(x[2], x[1], Whole(x[3]), Whole(5), calculate1RM(Whole(x[3]), Whole(5))) :
     x \in ChartSets}

\* orderBy('date', 'desc') holds of a snapshot
OrderedByDateDesc(docs) ==
  \A i \in 1..(Len(docs) - 1) : ~IsoLess(docs[i].date, docs[i + 1].date)

WithIds(ps) == [i \in 1..Len(ps) |-> Doc(i, ps[i])]

ChartSnapshots ==
  {WithIds(ps) : ps \in {q \in UNION {[1..n -> ChartRecords] : n \in 0..MaxChartLogs} :
                           OrderedByDateDesc(q)}}

ChartInit ==
  /\ AppIdle /\ AsyncIdle /\ CalcIdle
  /\ tz \in TimeZones
  /\ storeLogs \in ChartSnapshots
  /\ nextId = Len(storeLogs)
  /\ quota = 0
  /\ download = NoFile
  /\ storeCustom = NoConfig

ChartNext ==
  \/ OnAuthStateChanged("uid")
  \/ OnLogsSnapshot
  \/ \E e \in ExerciseChoices : SetSelectedExercise(e)

ChartSpec == ChartInit /\ [][ChartNext]_vars

-----------------------------------------------------------------------------
(* The application: a session that starts signed out over an empty         *)
(* collection; the user fills in the record form for the exercise selected *)
(* at the start, saves, exports, and imports exported files and files      *)
(* written by hand.                                                        *)

Tabs == {"record", "history"}

\* values typed into the number inputs of the record form
WeightInputs == {<<>>, <<"1", "0", "0">>}
RepsInputs == {<<>>, <<"2", ".", "5">>}

\* values of the date input: a day, and the cleared field
RecordDateInputs == {TodayString, <<>>}

\* local times of the clicks on the save button
ClickTimes == {<<10, 0>>}

BenchPress == INITIAL_EXERCISES[1]

\* files written by hand: a row that parses, an empty line and a row whose
\* weight does not parse; a row whose date does not parse; a line of fewer than 4 columns next to
\* a row whose reps do not parse
GoodRow == Join(<<<<"2", "0", "2", "4", "/", "0", "1", "/", "1", "0">>, BenchPress,
                  <<"6", "2", ".", "5">>, <<"5">> >>, ",")
BadWeightRow == Join(<<<<"2", "0", "2", "4", "/", "0", "1", "/", "1", "0">>, BenchPress,
                       <<"a", "b", "c">>, <<"5">> >>, ",")
BadRepsRow == Join(<<<<"2", "0", "2", "4", "/", "0", "1", "/", "1", "0">>, BenchPress,
                     <<"8", "0">>, <<"x">>, <<"9", "3", ".", "3">> >>, ",")
BadDateRow == Join(<<<<"a", "b", "c">>, BenchPress, <<"1", "0", "0">>, <<"5">> >>, ",")
ShortRow == Join(<<<<"2", "0", "2", "4", "/", "0", "1", "/", "1", "0">>, BenchPress>>, ",")

CraftedFiles ==
  {File(Join(<<CsvHeader, GoodRow, <<>>, BadWeightRow>>, "\n")),
   File(Join(<<CsvHeader, ShortRow, BadRepsRow, BadDateRow, GoodRow>>, "\n"))}

Init ==
  /\ AppIdle /\ EnvIdle /\ AsyncIdle /\ CalcIdle
  /\ tz = 540

Next ==
  \/ OnAuthStateChanged("uid")
  \/ OnLogsSnapshot
  \/ \E tab \in Tabs : SetActiveTab(tab)
  \/ \E v \in RecordDateInputs : SetRecordDate(v)
  \/ \E v \in WeightInputs : SetWeight(v)
  \/ \E v \in RepsInputs : SetReps(v)
  \/ \E t \in ClickTimes : HandleSaveLog(t[1], t[2])
  \/ \E i \in 1..MaxPendingSaves : SaveResolved(i)
  \/ \E i \in 1..MaxPendingSaves : SaveRejected(i)
  \/ HandleExportCSV
  \/ HandleFileSelect(download)
  \/ \E f \in CraftedFiles : HandleFileSelect(f)
  \/ ExecuteImport
  \/ ImportOnLoad
  \/ ImportWriteResolved
  \/ ImportWriteRejected
  \/ CloseImportModal

Spec == Init /\ [][Next]_vars

-----------------------------------------------------------------------------
(* The CSV harness: the collection holds records made in earlier sessions, *)
(* among them records of custom exercises; the user exports it and imports *)
(* the exported file, or a file written by hand.                           *)

MaxStoredLogs == 2

\* names of custom exercises as handleAddExercise takes them from the input:
\* one with a comma, one with a trailing space
NarrowBench == <<"ベ", "ン", "チ", ",", "ナ", "ロ", "ー">>
LungeSpace == <<"ラ", "ン", "ジ", " ">>

\* records as handleSaveLog creates them: 100 kg and 62.5 kg of the bench
\* press, and one record of each custom exercise
StoredSets ==
  {<<BenchPress, Whole(100)>>, <<BenchPress, Num(625)>>,
   <<NarrowBench, Whole(100)>>, <<LungeSpace, Num(625)>>}

StoredRecords ==
  {Payload(<<2024, 1, 10, 10, 0>>, x[1], x[2], Whole(5), calculate1RM(x[2], Whole(5))) :
     x \in StoredSets}

StoredCollections ==
  {WithIds(ps) : ps \in UNION {[1..n -> StoredRecords] : n \in 1..MaxStoredLogs}}

ImportInit ==
  /\ AppIdle /\ AsyncIdle /\ CalcIdle
  /\ tz \in {0, 540}
  /\ storeLogs \in StoredCollections
  /\ nextId = Len(storeLogs)
  /\ quota = MaxWrites
  /\ download = NoFile
  /\ storeCustom = NoConfig

ImportNext ==
  \/ OnAuthStateChanged("uid")
  \/ OnLogsSnapshot
  \/ SetActiveTab("history")
  \/ HandleExportCSV
  \/ HandleFileSelect(download)
  \/ \E f \in CraftedFiles : HandleFileSelect(f)
  \/ ExecuteImport
  \/ ImportOnLoad
  \/ ImportWriteResolved
  \/ ImportWriteRejected
  \/ CloseImportModal

ImportSpec == ImportInit /\ [][ImportNext]_vars

-----------------------------------------------------------------------------
(* The registry harness: the config document holds a custom list persisted *)
(* by earlier sessions or written by another client, built-in and repeated *)
(* names included; the user signs in and adds exercises.                   *)

MaxCustom == 3

AbsUpper == <<"A", "b", "s">>
AbsLower == <<"a", "b", "s">>

\* names found in a persisted custom list
PersistedNames == {BenchPress, AbsUpper, AbsLower}

PersistedLists == UNION {[1..n -> PersistedNames] : n \in 0..MaxCustom}

\* values typed into the text input of the add-exercise form
NameInputs == {<<>>, BenchPress, AbsUpper, <<"ラ", "ン", "ジ">>}

RegistryInit ==
  /\ AppIdle /\ AsyncIdle /\ CalcIdle
  /\ tz = 540
  /\ storeLogs = <<>>
  /\ nextId = 0
  /\ quota = MaxWrites
  /\ download = NoFile
  /\ storeCustom \in {NoConfig} \cup {Config(l) : l \in PersistedLists}

RegistryNext ==
  \/ OnAuthStateChanged("uid")
  \/ OnSettingsSnapshot
  \/ ToggleAddExercise
  \/ \E v \in NameInputs : SetNewExerciseName(v)
  \/ HandleAddExercise
  \/ \E i \in 1..MaxPendingAdds : AddResolved(i)
  \/ \E i \in 1..MaxPendingAdds : AddRejected(i)

RegistrySpec == RegistryInit /\ [][RegistryNext]_vars

-----------------------------------------------------------------------------
(* The save harness: the record form in each time zone; the user types     *)
(* into the number inputs and saves at different times of the day.         *)

MaxSaveWrites == 1

\* the value a number input reports for the text typed into it: the text when
\* it is a valid floating-point number (an optional minus sign, digits, a
\* fraction; digits on one side of the point suffice before it, not after),
\* else the empty string
NumberInputValue(typed) ==
  LET p == DecimalPrefix(typed)
      body == IF p.neg THEN Tail(typed) ELSE typed
      dotLast == typed # <<>> /\ typed[Len(typed)] = "."
  IN IF typed # <<>> /\ Head(typed) # "+" /\ p.ok /\ p.rest = <<>> /\ ~dotLast
     THEN typed ELSE <<>>

\* texts typed into the weight input and into the reps input
TypedWeights == {<<"1", "0", "0">>, <<"-", "5">>, <<"a", "b", "c">>}
TypedReps == {<<"5">>, <<".", "5">>, <<"0">>, <<"5", ".">>}

\* local times of the clicks on the save button
SaveTimes == {<<0, 0>>, <<23, 59>>}

SaveInit ==
  /\ AppIdle /\ AsyncIdle /\ CalcIdle
  /\ tz \in TimeZones
  /\ storeLogs = <<>>
  /\ nextId = 0
  /\ quota = MaxSaveWrites
  /\ download = NoFile
  /\ storeCustom = NoConfig

SaveNext ==
  \/ OnAuthStateChanged("uid")
  \/ OnLogsSnapshot
  \/ \E v \in RecordDateInputs : SetRecordDate(v)
  \/ \E v \in TypedWeights : SetWeight(NumberInputValue(v))
  \/ \E v \in TypedReps : SetReps(NumberInputValue(v))
  \/ \E t \in SaveTimes : HandleSaveLog(t[1], t[2])
  \/ \E i \in 1..MaxPendingSaves : SaveResolved(i)
  \/ \E i \in 1..MaxPendingSaves : SaveRejected(i)

SaveSpec == SaveInit /\ [][SaveNext]_vars

-----------------------------------------------------------------------------
(* The foreign-records harness: the collection also holds records that     *)
(* another client wrote with date: null.                                   *)

MaxDatedLogs == 2

\* records without a usable date, one per exercise of the model
UndatedRecords ==
  {Payload(NoDate, e, Whole(100), Whole(5), calculate1RM(Whole(100), Whole(5))) :
     e \in ExerciseChoices}

\* orderBy('date', 'desc') delivers the records whose date is null last
ForeignSnapshots ==
  {WithIds(ps \o ns) :
     ps \in {q \in UNION {[1..n -> ChartRecords] : n \in 0..MaxDatedLogs} :
               OrderedByDateDesc(q)},
     ns \in {<<>>} \cup {<<u>> : u \in UndatedRecords}}

ForeignInit ==
  /\ AppIdle /\ AsyncIdle /\ CalcIdle
  /\ tz \in TimeZones
  /\ storeLogs \in ForeignSnapshots
  /\ nextId = Len(storeLogs)
  /\ quota = 0
  /\ download = NoFile
  /\ storeCustom = NoConfig

ForeignNext ==
  \/ OnAuthStateChanged("uid")
  \/ OnLogsSnapshot
  \/ \E e \in ExerciseChoices : SetSelectedExercise(e)

ForeignSpec == ForeignInit /\ [][ForeignNext]_vars

-----------------------------------------------------------------------------
(* The session harness: an empty collection; the user signs in and out,    *)
(* saves a set, adds an exercise, deletes a record and imports a file,     *)
(* while the store accepts MaxSessionWrites writes and at most             *)
(* MaxInFlight handler calls await the store.                              *)

MaxSessionWrites == 1

SessionFile == File(Join(<<CsvHeader, GoodRow>>, "\n"))

SessionName == <<"ラ", "ン", "ジ">>

SessionInit ==
  /\ AppIdle /\ AsyncIdle /\ CalcIdle
  /\ tz = 540
  /\ storeLogs = <<>>
  /\ nextId = Len(storeLogs)
  /\ quota = MaxSessionWrites
  /\ download = NoFile
  /\ storeCustom = NoConfig

\* the steps of the four write handlers, up to and after their awaits
HandlerStep ==
  \/ \E t \in ClickTimes : HandleSaveLog(t[1], t[2])
  \/ \E i \in 1..MaxPendingSaves : SaveResolved(i)
  \/ \E i \in 1..MaxPendingSaves : SaveRejected(i)
  \/ HandleAddExercise
  \/ \E i \in 1..MaxPendingAdds : AddResolved(i)
  \/ \E i \in 1..MaxPendingAdds : AddRejected(i)
  \/ ConfirmDelete
  \/ \E i \in 1..MaxPendingDeletes : DeleteResolved(i)
  \/ \E i \in 1..MaxPendingDeletes : DeleteRejected(i)
  \/ ExecuteImport
  \/ ImportOnLoad
  \/ ImportWriteResolved
  \/ ImportWriteRejected

\* the handler calls that have not returned yet
InFlight ==
  Len(saves) + Len(adds) + Len(deletes) + (IF imp.pc = "idle" THEN 0 ELSE 1)

MaxInFlight == 1

\* the two modals cover the whole window: while one is open the page under it
\* takes no click
Unobstructed == ~showDeleteModal /\ ~showImportModal

SessionNext ==
  \/ \E u \in {"uid", "null"} : OnAuthStateChanged(u)
  \/ OnLogsSnapshot
  \/ OnSettingsSnapshot
  \/ Unobstructed /\ \E tab \in Tabs : SetActiveTab(tab)
  \/ Unobstructed /\ SetWeight(<<"1", "0", "0">>)
  \/ Unobstructed /\ SetReps(<<"5">>)
  \/ Unobstructed /\ ToggleAddExercise
  \/ Unobstructed /\ SetNewExerciseName(SessionName)
  \/ \E i \in 1..MaxStoredLogs : RequestDelete(i)
  \/ CancelDelete
  \/ HandleFileSelect(SessionFile)
  \/ CloseImportModal
  \/ Unobstructed /\ InFlight < MaxInFlight
       /\ \E t \in ClickTimes : HandleSaveLog(t[1], t[2])
  \/ \E i \in 1..MaxPendingSaves : SaveResolved(i)
  \/ \E i \in 1..MaxPendingSaves : SaveRejected(i)
  \/ Unobstructed /\ InFlight < MaxInFlight /\ HandleAddExercise
  \/ \E i \in 1..MaxPendingAdds : AddResolved(i)
  \/ \E i \in 1..MaxPendingAdds : AddRejected(i)
  \/ InFlight < MaxInFlight /\ ConfirmDelete
  \/ \E i \in 1..MaxPendingDeletes : DeleteResolved(i)
  \/ \E i \in 1..MaxPendingDeletes : DeleteRejected(i)
  \/ InFlight < MaxInFlight /\ ExecuteImport
  \/ ImportOnLoad
  \/ ImportWriteResolved
  \/ ImportWriteRejected

SessionSpec == SessionInit /\ [][SessionNext]_vars

-----------------------------------------------------------------------------
(* The batch harness: imports of hand-written files with several rows that *)
(* parse into an empty collection; the store resolves up to MaxWrites       *)
(* writes and may reject any.                                              *)

SecondRow == Join(<<<<"2", "0", "2", "4", "/", "0", "1", "/", "1", "1">>, BenchPress,
                    <<"1", "0", "0">>, <<"3">> >>, ",")

\* three rows that parse among a short line and a row that does not; and a row
\* whose date does not parse between two rows that parse
BatchFiles ==
  {File(Join(<<CsvHeader, GoodRow, ShortRow, SecondRow, BadWeightRow, GoodRow>>, "\n")),
   File(Join(<<CsvHeader, GoodRow, BadDateRow, SecondRow>>, "\n"))}

BatchInit ==
  /\ AppIdle /\ EnvIdle /\ AsyncIdle /\ CalcIdle
  /\ tz = 540

BatchNext ==
  \/ OnAuthStateChanged("uid")
  \/ OnLogsSnapshot
  \/ SetActiveTab("history")
  \/ \E f \in BatchFiles : HandleFileSelect(f)
  \/ ExecuteImport
  \/ ImportOnLoad
  \/ ImportReadFailed
  \/ ImportWriteResolved
  \/ ImportWriteRejected
  \/ CloseImportModal

BatchSpec == BatchInit /\ [][BatchNext]_vars

\* the same under the scheduling the claims on termination assume: a read
\* that has begun completes or fails, and a write that is in flight resolves
\* or is rejected
LiveSpec ==
  /\ BatchSpec
  /\ WF_vars(ImportReadFailed \/ ImportOnLoad)
  /\ WF_vars(ImportWriteRejected \/ ImportWriteResolved)

-----------------------------------------------------------------------------
(* The export harness: any stored collection of the chart harness or of    *)
(* the CSV harness, in each time zone; the user opens the history tab and  *)
(* exports.                                                                *)

ExportInit ==
  /\ AppIdle /\ AsyncIdle /\ CalcIdle
  /\ tz \in TimeZones
  /\ storeLogs \in ChartSnapshots \cup StoredCollections
  /\ nextId = Len(storeLogs)
  /\ quota = 0
  /\ download = NoFile
  /\ storeCustom = NoConfig

ExportNext ==
  \/ OnAuthStateChanged("uid")
  \/ OnLogsSnapshot
  \/ \E tab \in Tabs : SetActiveTab(tab)
  \/ HandleExportCSV

ExportSpec == ExportInit /\ [][ExportNext]_vars

-----------------------------------------------------------------------------
(* The selection harness: the user signs in with a settings document that  *)
(* may hold a custom name, selects exercises, adds one and saves records,  *)
(* while the same account is also used from a second session.              *)

Lunge == <<"ラ", "ン", "ジ">>

\* custom lists the settings document may hold
SharedLists == {<<AbsUpper>>, <<Lunge>>}

\* the config document written by another session of the same user: its
\* handleAddExercise persists the custom list of that session
SettingsWrittenElsewhere(custom) ==
  /\ user # "null"
  /\ storeCustom # Config(custom)
  /\ storeCustom' = Config(custom)
  /\ UNCHANGED <<appVars, envVars, asyncVars, calcVars, newExerciseName,
                 showAddExercise, adds, deleteVars>>

MaxSelectWrites == 1

SelectInit ==
  /\ AppIdle /\ AsyncIdle /\ CalcIdle
  /\ tz = 540
  /\ storeLogs = <<>>
  /\ nextId = 0
  /\ quota = MaxSelectWrites
  /\ download = NoFile
  /\ storeCustom \in {NoConfig, Config(<<AbsUpper>>)}

SelectNext ==
  \/ OnAuthStateChanged("uid")
  \/ OnSettingsSnapshot
  \/ \E e \in Range(exercises) : SetSelectedExercise(e)
  \/ SetActiveTab("record")
  \/ SetWeight(<<"1", "0", "0">>)
  \/ SetReps(<<"5">>)
  \/ InFlight < MaxInFlight /\ HandleSaveLog(12, 0)
  \/ \E i \in 1..MaxPendingSaves : SaveResolved(i)
  \/ \E i \in 1..MaxPendingSaves : SaveRejected(i)
  \/ ToggleAddExercise
  \/ SetNewExerciseName(Lunge)
  \/ InFlight < MaxInFlight /\ HandleAddExercise
  \/ \E i \in 1..MaxPendingAdds : AddResolved(i)
  \/ \E i \in 1..MaxPendingAdds : AddRejected(i)
  \/ \E l \in SharedLists : SettingsWrittenElsewhere(l)

SelectSpec == SelectInit /\ [][SelectNext]_vars

-----------------------------------------------------------------------------
(* Claims about the estimator, checked under CalcSpec                      *)

\* twice the exact value of w * (1 + r / 30) * 10, in 600ths, for operands in tenths
EpleyTimes600(W, R) == 2 * W * (300 + R)

\* C1: for every weight w > 0 and reps r > 0, calculate1RM(w, r) is the Epley
\* estimate w * (1 + r / 30) rounded to one decimal place (a tie rounds up), and
\* calculate1RM(100, 5) is 116.7.
C1_EpleyRounded ==
  (calcPc = "done" /\ calcW.t = "num" /\ calcW.v > 0 /\ calcR.t = "num" /\ calcR.v > 0)
    => /\ calcOut.t = "num"
       /\ 600 * calcOut.v - 300 <= EpleyTimes600(calcW.v, calcR.v)
       /\ EpleyTimes600(calcW.v, calcR.v) < 600 * calcOut.v + 300
       /\ (calcW = Whole(100) /\ calcR = Whole(5)) => calcOut = Num(1167)

\* 0.5 kg for 3 reps is exactly 0.55, a tie, which rounds up to 0.6
C1_Witness ==
  calcPc = "done" /\ calcW = Num(5) /\ calcR = Whole(3) /\ calcOut = Num(6)

\* the operands the claim calls zero, absent or non-numeric, among those the
\* program passes
ZeroAbsentOrNonNumeric(x) ==
  x \in {Num(0), NaN, Str(<<>>), Str(<<"0">>)}

\* C2: calculate1RM returns the sentinel 0 whenever either operand is zero,
\* absent (empty or undefined) or non-numeric, for the numbers passed at save
\* and import time and for the raw form strings of the live preview.
C2_ZeroSentinel ==
  (calcPc = "done" /\ (ZeroAbsentOrNonNumeric(calcW) \/ ZeroAbsentOrNonNumeric(calcR)))
    => calcOut = Num(0)

\* The claim fails for the live preview: the form string "0" is a non-empty
\* string, hence truthy, so calculate1RM("100", "0") is 100 and not the sentinel.

-----------------------------------------------------------------------------
(* Claims about the aggregation engine, checked under ChartSpec            *)

\* the calendar day of a record, as the day number of its local date
DayNumber(log) == (DateOf(log.date).t + tz) \div MinutesPerDay

\* the label, month/day, of a day number
LabelOfDay(day) ==
  LET ymd == CivilFromDays(day) IN Pad2(ymd[2]) \o <<"/">> \o Pad2(ymd[3])

\* the records of the selected exercise, and the days that have one
SelectedRecords == {i \in 1..Len(logs) : logs[i].exercise = selectedExercise}
SelectedDays == {DayNumber(logs[i]) : i \in SelectedRecords}
RecordsOn(day) == {i \in SelectedRecords : DayNumber(logs[i]) = day}

\* the best oneRM of the selected exercise on a day
BestOn(day) ==
  CHOOSE x \in {logs[i].oneRM : i \in RecordsOn(day)} :
    \A i \in RecordsOn(day) : ~NumLess(x, logs[i].oneRM)

\* the points are, in some order, one per day that has a record, each with the
\* label of its day and the best oneRM of that day
OnePointPerDay(data) ==
  /\ Len(data) = Cardinality(SelectedDays)
  /\ \E f \in [1..Len(data) -> SelectedDays] :
       /\ \A j, k \in 1..Len(data) : j # k => f[j] # f[k]
       /\ \A k \in 1..Len(data) :
            data[k] = [date |-> LabelOfDay(f[k]), oneRM |-> BestOn(f[k])]

\* C4: for the selected exercise chartData holds exactly one point per distinct
\* calendar day that has a record, with the maximum oneRM of that day; records
\* of different days, the same month and day of different years included, are
\* never merged.  Stated of every revision of chartData.
C4_OnePointPerDay ==
  /\ OnePointPerDay(chartData(logs, selectedExercise, tz))
  /\ OnePointPerDay(chartDataRev2(logs, selectedExercise, tz))

ArrivalOrders(n) == {p \in [1..n -> 1..n] : \A j, k \in 1..n : j # k => p[j] # p[k]}
Permuted(s, p) == [i \in 1..Len(s) |-> s[p[i]]]

\* C5: the progress series does not depend on the arrival order of the records:
\* every permutation of the log collection gives the same sequence of points.
C5_OrderIndependent ==
  \A p \in ArrivalOrders(Len(logs)) :
    /\ chartData(Permuted(logs, p), selectedExercise, tz)
         = chartData(logs, selectedExercise, tz)
    /\ chartDataRev2(Permuted(logs, p), selectedExercise, tz)
         = chartDataRev2(logs, selectedExercise, tz)

\* two sets of the selected exercise on one day with different oneRM, the better
\* one arriving later in the collection, and a set on another day
C5_Witness ==
  /\ Len(logs) = 3
  /\ Cardinality(SelectedRecords) = 3
  /\ Cardinality(SelectedDays) = 2
  /\ \E i, j \in SelectedRecords :
       /\ i < j
       /\ DayNumber(logs[i]) = DayNumber(logs[j])
       /\ NumLess(logs[i].oneRM, logs[j].oneRM)
  /\ Len(chartData(logs, selectedExercise, tz)) = 2

\* a point is for a day when it carries the label of the day and the oneRM of a
\* record of that day
PointIsFor(pt, day) ==
  /\ pt.date = LabelOfDay(day)
  /\ \E i \in RecordsOn(day) : logs[i].oneRM = pt.oneRM

\* each point is for a strictly later day than the point before it
AscendingByDay(data) ==
  \E f \in [1..Len(data) -> SelectedDays] :
    /\ \A k \in 1..Len(data) : PointIsFor(data[k], f[k])
    /\ \A k \in 1..(Len(data) - 1) : f[k] < f[k + 1]

\* C6: the points of the progress series are ordered ascending by calendar date,
\* each for a strictly later day than the one before.  Stated of every revision.
C6_AscendingByDay ==
  /\ AscendingByDay(chartData(logs, selectedExercise, tz))
  /\ AscendingByDay(chartDataRev2(logs, selectedExercise, tz))

\* C7: the chart is drawn only when the selected exercise has records on at
\* least two distinct calendar days; with fewer the view shows 'insufficient
\* data'.  Stated of every revision.
C7_ChartNeedsTwoDays ==
  /\ ChartShown(chartData(logs, selectedExercise, tz)) => Cardinality(SelectedDays) >= 2
  /\ ChartShown(chartDataRev2(logs, selectedExercise, tz)) => Cardinality(SelectedDays) >= 2

\* several sets of the selected exercise, all on one day: no chart
C7_Witness ==
  /\ Cardinality(SelectedRecords) >= 2
  /\ Cardinality(SelectedDays) = 1
  /\ ~ChartShown(chartData(logs, selectedExercise, tz))
  /\ ~ChartShown(chartDataRev2(logs, selectedExercise, tz))

\* the months the calendar is asked to display
CalendarMonths == {<<2023, 1>>, <<2024, 1>>}
CalendarCells ==
  {<<ym[1], ym[2], d>> : ym \in CalendarMonths, d \in 1..31}

AllDays == {DayNumber(logs[i]) : i \in 1..Len(logs)}

\* C8: trainingDays is the set of the calendar days of all records of all
\* exercises: one entry per day that has a record, however many records the day
\* has, and a calendar cell is marked exactly when its day has a record.
C8_TrainingDays ==
  LET days == trainingDays(logs, tz)
      recorded == AllDays
  IN /\ Cardinality(days) = Cardinality(recorded)
     /\ \A c \in CalendarCells :
          CellTrained(days, c[1], c[2], c[3], tz)
            <=> DaysFromCivil(c[1], c[2], c[3]) \in recorded

\* two sets on one local day that starts on the previous UTC day (Tokyo)
C8_Witness ==
  /\ Len(logs) = 2
  /\ tz = 540
  /\ logs[1].date = <<2024, 1, 10, 20, 0>>
  /\ logs[2].date = <<2024, 1, 10, 20, 0>>
  /\ Cardinality(trainingDays(logs, tz)) = 1
  /\ CellTrained(trainingDays(logs, tz), 2024, 1, 11, tz)
  /\ ~CellTrained(trainingDays(logs, tz), 2024, 1, 10, tz)

-----------------------------------------------------------------------------
(* Claims about the writes, checked under Spec                             *)

Consistent(p) == p.oneRM = calculate1RM(p.weight, p.reps)

\* C3: every payload that handleSaveLog or executeImport hands to addDoc stores
\* oneRM equal to calculate1RM of the weight and reps of that same payload: no
\* record in the collection, and no write in flight, is inconsistent, after any
\* sequence of saves and imports.
C3_OneRMConsistent ==
  /\ \A i \in 1..Len(storeLogs) : Consistent(storeLogs[i])
  /\ \A i \in 1..Len(saves) : Consistent(saves[i])
  /\ imp.pc = "await" => Consistent(imp.payload)

\* the collection holds a record saved from the form with reps typed as 2.5 and
\* stored as 2 (100 kg, 106.7), and a record imported from a row (62.5 kg, 5
\* reps, 72.9)
C3_Witness ==
  \E i, j \in 1..Len(storeLogs) :
    /\ storeLogs[i].weight = Whole(100)
    /\ storeLogs[i].reps = Whole(2)
    /\ storeLogs[i].oneRM = Num(1067)
    /\ storeLogs[j].weight = Num(625)
    /\ storeLogs[j].reps = Whole(5)
    /\ storeLogs[j].oneRM = Num(729)

-----------------------------------------------------------------------------
(* Claims about the CSV codec, checked under ImportSpec                    *)

\* the payloads of the rows of the import whose write the store accepted
RECURSIVE Created(_)
Created(rows) ==
  IF rows = <<>> THEN <<>>
  ELSE IF Head(rows).out = "accepted"
       THEN <<Head(rows).payload>> \o Created(Tail(rows))
       ELSE Created(Tail(rows))

\* the import of a file that handleExportCSV wrote is over, and the store
\* rejected none of its writes
RoundTripOver ==
  /\ impTrace.file.exported
  /\ imp.pc = "idle"
  /\ importStatus \in {"done", "error"}
  /\ \A i \in 1..Len(impTrace.rows) : impTrace.rows[i].out # "rejected"

SameRecord(a, b) ==
  /\ a.exercise = b.exercise
  /\ a.weight = b.weight
  /\ a.reps = b.reps
  /\ a.oneRM = b.oneRM

\* the import reports {success: N, error: 0} and has created N records like the
\* N exported ones
RoundTrips ==
  LET originals == impTrace.file.of
      created == Created(impTrace.rows)
  IN /\ importStatus = "done"
     /\ importResult = [success |-> Len(originals), error |-> 0]
     /\ Len(created) = Len(originals)
     /\ \A i \in 1..Len(originals) : SameRecord(created[i], originals[i])

\* an exercise name with no comma, no line break and no white space at either end
PlainName(e) ==
  /\ \A i \in 1..Len(e) : e[i] \notin {",", "\n"}
  /\ Trim(e) = e

\* C9 as stated: for any collection of N valid records, the text handleExportCSV
\* produces, imported by executeImport, yields {success: N, error: 0} and
\* creates N records with the exercise, weight, reps and oneRM of the originals.
C9_RoundTrip == RoundTripOver => RoundTrips

\* C9, amended: the same of collections whose exercise names are plain.
C9_RoundTripPlainNames ==
  (/\ RoundTripOver
   /\ \A i \in 1..Len(impTrace.file.of) : PlainName(impTrace.file.of[i].exercise))
    => RoundTrips

\* two records with plain names were exported and imported again
C9_Witness ==
  /\ RoundTripOver
  /\ Len(impTrace.file.of) = 2
  /\ \A i \in 1..2 : PlainName(impTrace.file.of[i].exercise)
  /\ impTrace.file.of[1].weight # impTrace.file.of[2].weight
  /\ importResult.success = 2
  /\ Len(storeLogs) = 4

Columns(line) == Split(Trim(line), ",")

\* C10: a data row with at least 4 columns is accepted, success incremented and
\* one record created, if and only if its weight column parses to a decimal and
\* its reps column to an integer; otherwise error is incremented, success is
\* not, and no record is created.  Rows whose write is in flight or was rejected
\* by the store are left aside.
C10_AcceptedIffNumbersParse ==
  \A i \in 1..Len(impTrace.rows) :
    LET row == impTrace.rows[i]
        cols == Columns(row.line)
    IN (Len(cols) >= 4 /\ row.out \notin {"issued", "rejected"})
         => /\ row.out = "accepted" <=> RowNumbersParse(cols[3], cols[4])
            /\ ~RowNumbersParse(cols[3], cols[4]) => row.out = "error"

\* how many rows of the import had the given outcome
CountOut(rows, out) == Cardinality({i \in 1..Len(rows) : rows[i].out = out})

\* C11: the header line and every line of fewer than 4 columns, empty lines
\* included, change neither counter and create no record: the data lines are
\* the lines after the first, a short line is skipped, and success and error
\* count exactly the rows accepted and the rows refused, each accepted row being
\* one record more in the collection.
\* (The lines the loop has met, joined by line breaks, are the text that follows
\* the first line break of the file.)
C11_HeaderAndShortLinesSkipped ==
  LET text == impTrace.file.text
      rows == impTrace.rows
      first == IndexOf(text, "\n", 1)
      met == Join([i \in 1..Len(rows) |-> rows[i].line], "\n")
  IN /\ rows # <<>> =>
          /\ first > 0
          /\ first + Len(met) <= Len(text)
          /\ SubSeq(text, first + 1, first + Len(met)) = met
          /\ first + Len(met) = Len(text) \/ text[first + Len(met) + 1] = "\n"
     /\ \A i \in 1..Len(rows) :
          /\ "\n" \notin Range(rows[i].line)
          /\ Len(Columns(rows[i].line)) < 4 <=> rows[i].out = "skipped"
     /\ imp.pc = "await" =>
          /\ imp.success = CountOut(rows, "accepted")
          /\ imp.error = CountOut(rows, "error")
     /\ (importStatus = "done" /\ impTrace.file.present) =>
          /\ importResult.success = CountOut(rows, "accepted")
          /\ importResult.error = CountOut(rows, "error")
     /\ impTrace.file.present =>
          Len(storeLogs) = impTrace.base + CountOut(rows, "accepted")

\* an import is over that met an empty line, accepted one row and refused one
C11_Witness ==
  /\ importStatus = "done"
  /\ Len(impTrace.rows) = 3
  /\ impTrace.rows[2].line = <<>>
  /\ impTrace.rows[2].out = "skipped"
  /\ importResult = [success |-> 1, error |-> 1]


-----------------------------------------------------------------------------
(* Claims about the exercise registry, checked under RegistrySpec          *)

NoRepeats(list) == \A j, k \in 1..Len(list) : j # k => list[j] # list[k]

\* the place of the first occurrence of a name in a list
FirstAt(list, name) == CHOOSE i \in 1..Len(list) :
                         list[i] = name /\ \A j \in 1..(i - 1) : list[j] # name

\* list is the built-in list followed by the names of custom that are not
\* built in, each once, in the order of their first occurrence in custom
IsMergeOf(list, custom) ==
  LET n == Len(INITIAL_EXERCISES)
      rest == SubSeq(list, n + 1, Len(list))
  IN /\ Len(list) >= n
     /\ SubSeq(list, 1, n) = INITIAL_EXERCISES
     /\ NoRepeats(list)
     /\ Range(rest) = Range(custom) \ Range(INITIAL_EXERCISES)
     /\ \A j, k \in 1..Len(rest) :
          j < k => FirstAt(custom, rest[j]) < FirstAt(custom, rest[k])

\* C12: the list set on a settings push is the built-in list in its order
\* followed by the persisted custom names in their persisted order, every name
\* exactly once by exact match; a built-in or repeated name in the custom list
\* is not duplicated, and merging the result again changes nothing.
C12_MergedExerciseList ==
  [][(OnSettingsSnapshot /\ storeCustom.present)
       => /\ IsMergeOf(exercises', storeCustom.names)
          /\ MergeExercises(exercises') = exercises'
          /\ MergeExercises(SubSeq(exercises', Len(INITIAL_EXERCISES) + 1,
                                   Len(exercises'))) = exercises']_vars

\* the persisted list holds a name twice, a built-in name, and a name that
\* differs from another by case only; the push has set the merged list
C12_Witness ==
  /\ storeCustom = Config(<<AbsUpper, BenchPress, AbsUpper>>)
     \/ storeCustom = Config(<<AbsLower, AbsUpper, AbsLower>>)
  /\ Len(exercises) > Len(INITIAL_EXERCISES)
  /\ exercises = MergeExercises(storeCustom.names)

\* C13: handleAddExercise with an empty name, or with a name already in the
\* effective exercise list, is a no-op: no write is issued and no state changes.
C13_AddDuplicateIsNoOp ==
  [][(HandleAddExercise /\ (newExerciseName = <<>> \/ newExerciseName \in Range(exercises)))
       => UNCHANGED vars]_vars

\* the form is open on the name of a custom exercise of the effective list, the
\* user is signed in and no write is pending: the click changes nothing
C13_Witness ==
  /\ user # "null"
  /\ activeTab = "record" /\ showAddExercise
  /\ newExerciseName = AbsUpper
  /\ newExerciseName \in Range(exercises)
  /\ adds = <<>>
  /\ storeCustom = Config(<<AbsUpper>>)

-----------------------------------------------------------------------------
(* Claims about handleSaveLog, checked under SaveSpec                      *)

\* C14: handleSaveLog produces no payload and issues no write when weight or
\* reps is empty or does not parse as a number; it then leaves all state
\* unchanged.
C14_NoSaveWithoutNumbers ==
  [][((\E t \in SaveTimes : HandleSaveLog(t[1], t[2]))
        /\ (\/ weight = <<>>
            \/ reps = <<>>
            \/ isNaN(parseFloat(weight))
            \/ isNaN(parseInt(reps))))
       => UNCHANGED vars]_vars

\* "YYYY-MM-DD" as formatDate writes the day: "YYYY/MM/DD"
SlashDate(s) == [i \in 1..Len(s) |-> IF s[i] = "-" THEN "/" ELSE s[i]]

\* C15: for every selected date, time of day of the save and time zone of the
\* client, the timestamp of the record handleSaveLog creates is on the selected
\* day, as formatDate renders it in that time zone.
C15_SavedOnSelectedDay ==
  [][Len(saves') = Len(saves) + 1
       => formatDate(saves'[Len(saves')].date, tz) = SlashDate(recordDate)]_vars

PositiveSet(p) ==
  /\ p.weight.t = "num" /\ p.weight.v > 0
  /\ p.reps.t = "num" /\ p.reps.v > 0 /\ p.reps.v % 10 = 0

\* C16: every record handleSaveLog or executeImport creates has weight > 0 and
\* reps a positive integer, whatever the form inputs and the CSV rows.
C16_PositiveWeightAndReps ==
  /\ \A i \in 1..Len(saves) : PositiveSet(saves[i])
  /\ \A i \in 1..Len(storeLogs) : PositiveSet(storeLogs[i])
  /\ imp.pc = "await" => PositiveSet(imp.payload)

-----------------------------------------------------------------------------
(* Claims about records without a usable date, checked under ForeignSpec   *)

\* the records of logs that have a parseable date
Dated(allLogs) ==
  SelectSeq(allLogs, LAMBDA log : log.date # NoDate /\ DateOf(log.date).valid)

\* C17: a record whose date is missing or unparseable contributes nothing to
\* any derivation: the history groups, the chart points and the training days
\* are what they would be if the record were absent.
C17_UndatedRecordsIgnored ==
  /\ groupedLogs(logs, tz) = groupedLogs(Dated(logs), tz)
  /\ trainingDays(logs, tz) = trainingDays(Dated(logs), tz)
  /\ chartData(logs, selectedExercise, tz) = chartData(Dated(logs), selectedExercise, tz)

-----------------------------------------------------------------------------
(* Claims about the history groups                                         *)

\* the positions <<group, place>> at which the history tab shows record i
ShownAt(groups, i) ==
  {gk \in UNION {{<<g, k>> : k \in 1..Len(groups[g][2])} : g \in 1..Len(groups)} :
     groups[gk[1]][2][gk[2]] = logs[i]}

\* the position in logs of the record with an id
PlaceOf(id) == CHOOSE i \in 1..Len(logs) : logs[i].id = id

\* C18: the history groups the records by formatted day: every record is in
\* exactly one group, that of its day; within a group the records keep the
\* order of logs; the groups come in descending date order.
C18_HistoryGroups ==
  LET groups == historyGroups(logs, tz)
  IN /\ \A i \in 1..Len(logs) :
          /\ Cardinality(ShownAt(groups, i)) = 1
          /\ \A gk \in ShownAt(groups, i) :
               groups[gk[1]][1] = formatDate(logs[i].date, tz)
     /\ \A g \in 1..Len(groups) :
          /\ groups[g][2] # <<>>
          /\ \A k \in 1..Len(groups[g][2]) :
               \E i \in 1..Len(logs) : groups[g][2][k] = logs[i]
          /\ \A k, l \in 1..Len(groups[g][2]) :
               k < l => PlaceOf(groups[g][2][k].id) < PlaceOf(groups[g][2][l].id)
     /\ \A g, h \in 1..Len(groups) :
          g < h => DayNumber(groups[g][2][1]) > DayNumber(groups[h][2][1])

\* three records on two days of the zone, two of them on the same day
C18_Witness ==
  /\ Len(logs) = 3
  /\ Len(historyGroups(logs, tz)) = 2
  /\ \E g \in 1..2 : Len(historyGroups(logs, tz)[g][2]) = 2
  /\ \E i, j \in 1..3 :
       /\ DayNumber(logs[i]) = DayNumber(logs[j])
       /\ toISOString(DateOf(logs[i].date))[3] # toISOString(DateOf(logs[j].date))[3]

-----------------------------------------------------------------------------
(* Claims about the write handlers, checked under SessionSpec              *)

\* C19: logs and exercises are what the snapshot callbacks last set: no step
\* of handleSaveLog, handleAddExercise, confirmDelete or executeImport, before
\* or after its await, modifies logs or exercises; they change in the
\* snapshot callbacks only.
C19_ListsChangeOnSnapshotsOnly ==
  [][/\ logs' # logs => OnLogsSnapshot /\ ~HandlerStep
     /\ exercises' # exercises => OnSettingsSnapshot /\ ~HandlerStep]_vars

\* a save or an import has written a record that a snapshot has not delivered
\* yet: the call has returned and logs is still the empty list
C19_Witness ==
  /\ user # "null"
  /\ Len(storeLogs) = 1
  /\ logs = <<>>
  /\ InFlight = 0

\* C20: while user is null, handleSaveLog, handleAddExercise, confirmDelete and
\* executeImport issue no write and change no state.
C20_NoWriteWithoutUser ==
  [][(/\ user = "null"
      /\ \/ \E t \in ClickTimes : HandleSaveLog(t[1], t[2])
         \/ HandleAddExercise
         \/ ConfirmDelete
         \/ ExecuteImport)
       => UNCHANGED vars]_vars

\* signed out with the delete modal open on a record, the form filled in and
\* a file chosen
C20_Witness ==
  /\ user = "null"
  /\ showDeleteModal /\ deleteTarget # NoTarget
  /\ weight # <<>> /\ reps # <<>>
  /\ importFile.present

-----------------------------------------------------------------------------
(* Claims about rejected writes                                            *)

\* C21: when the store rejects a write of handleSaveLog, handleAddExercise or
\* confirmDelete, the handler leaves the in-memory state (logs, exercises, the
\* form fields, the delete modal and the delete target) as it was before the
\* action, and issues no further write.
C21_RejectionLeavesStateAlone ==
  [][(\/ \E i \in 1..MaxPendingSaves : SaveRejected(i)
      \/ \E i \in 1..MaxPendingAdds : AddRejected(i)
      \/ \E i \in 1..MaxPendingDeletes : DeleteRejected(i))
       => /\ UNCHANGED <<logs, exercises, activeTab, formVars, newExerciseName,
                         showAddExercise, deleteTarget, showDeleteModal>>
          /\ Len(saves') <= Len(saves)
          /\ Len(adds') <= Len(adds)
          /\ Len(deletes') <= Len(deletes)]_vars

\* the payloads of the rows of the trace that were accepted, in file order
AcceptedPayloads(rows) ==
  LET acc == SelectSeq(rows, LAMBDA row : row.out = "accepted")
  IN [i \in 1..Len(acc) |-> acc[i].payload]

\* the payloads of the documents the collection has gained since the import
\* started
WrittenSince(base) ==
  [i \in 1..(Len(storeLogs) - base) |-> Payload(storeLogs[base + i].date,
     storeLogs[base + i].exercise, storeLogs[base + i].weight,
     storeLogs[base + i].reps, storeLogs[base + i].oneRM)]

\* C22: the import is not transactional: when the store rejects the write of
\* the k-th accepted row, the k-1 records written before it remain in the
\* store, no delete is issued, and no row after the failing one is read or
\* written.
C22_ImportNotTransactional ==
  LET rows == impTrace.rows
  IN \A k \in 1..Len(rows) :
       rows[k].out = "rejected" =>
         /\ k = Len(rows)
         /\ imp.pc = "idle"
         /\ deletes = <<>>
         /\ WrittenSince(impTrace.base) = AcceptedPayloads(rows)

\* the write of the second row that parses was rejected after the first had
\* been written, and the file has lines after it
C22_Witness ==
  /\ Len(impTrace.rows) = 3
  /\ impTrace.rows[1].out = "accepted"
  /\ impTrace.rows[3].out = "rejected"
  /\ Len(Split(impTrace.file.text, "\n")) > 4
  /\ Len(storeLogs) = impTrace.base + 1
  /\ importStatus = "error"

-----------------------------------------------------------------------------
(* Claims about the persisted exercise list, checked under RegistrySpec    *)

\* C23: the custom exercise list only grows: every name in the persisted
\* customExercises list is still in it after any step, an add issued before
\* the settings push of an earlier add has been received included.
C23_CustomListOnlyGrows ==
  [][storeCustom.present =>
       /\ storeCustom'.present
       /\ Range(storeCustom.names) \subseteq Range(storeCustom'.names)]_vars

\* C24: the list handleAddExercise persists under customExercises never holds
\* a built-in name: it is the effective list without the built-in names,
\* followed by the new name, and the write puts this list in the settings
\* document.
C24_BuiltInsNeverPersisted ==
  [][/\ Len(adds') > Len(adds) =>
          LET custom == adds'[Len(adds')].custom
              n == Len(INITIAL_EXERCISES)
          IN /\ custom[Len(custom)] = newExerciseName
             /\ SubSeq(custom, 1, Len(custom) - 1) = SubSeq(exercises, n + 1, Len(exercises))
             /\ \A k \in 1..Len(custom) : custom[k] \notin Range(INITIAL_EXERCISES)
     /\ \A i \in 1..Len(adds) :
          AddResolved(i) => storeCustom' = Config(adds[i].custom)]_vars

\* an add is awaiting the store with a list of two names: a custom exercise
\* that was pushed before, and the new one
C24_Witness ==
  /\ Len(adds) = 1
  /\ Len(adds[1].custom) = 2
  /\ adds[1].custom[1] \in Range(exercises)
  /\ adds[1].custom[2] = adds[1].name

-----------------------------------------------------------------------------
(* Claims about the export, checked under ExportSpec                       *)

\* the columns of an exported line are those of the record: the formatted date
\* first, the three numbers last, and the exercise between them (a name with
\* commas in it takes several columns)
LineIsOf(line, log) ==
  LET cols == Split(line, ",")
      n == Len(cols)
  IN /\ n >= 5
     /\ cols[1] = formatDate(log.date, tz)
     /\ Join(SubSeq(cols, 2, n - 3), ",") = log.exercise
     /\ parseFloat(cols[n - 2]) = log.weight
     /\ parseFloat(cols[n - 1]) = log.reps
     /\ parseFloat(cols[n]) = log.oneRM

\* C25: handleExportCSV on a non-empty collection emits the header line of
\* five columns followed by exactly one line per record, in the order of logs,
\* each line holding the formatted date, the exercise, the weight, the reps
\* and the stored oneRM of its record, in this order.
C25_ExportedLines ==
  download.exported =>
    LET lines == Split(download.text, "\n")
    IN /\ download.of # <<>>
       /\ Len(lines) = Len(download.of) + 1
       /\ lines[1] = CsvHeader
       /\ Len(Split(lines[1], ",")) = 5
       /\ \A i \in 1..Len(download.of) : LineIsOf(lines[i + 1], download.of[i])

\* a file was exported from three records of different instants
C25_Witness ==
  /\ download.exported
  /\ Len(download.of) = 3
  /\ download.of = logs
  /\ download.of[1].date # download.of[2].date
  /\ download.of[2].date # download.of[3].date

-----------------------------------------------------------------------------
(* Claims about the import loop, checked under BatchSpec                   *)

\* C26: executeImport issues the writes in file order and awaits each: a write
\* is in flight only for the last row read, every row that parsed before it
\* has been written, in file order, and success counts the writes that have
\* resolved.
C26_OneWriteAtATime ==
  LET rows == impTrace.rows
      written == Len(storeLogs) - impTrace.base
  IN impTrace.file.present =>
       /\ \A k \in 1..Len(rows) :
            rows[k].out = "issued" =>
              /\ k = Len(rows)
              /\ imp.pc = "await"
              /\ imp.payload = rows[k].payload
       /\ imp.pc = "await" =>
            /\ rows # <<>> /\ rows[Len(rows)].out = "issued"
            /\ imp.success = written
       /\ importStatus = "done" => importResult.success = written
       /\ WrittenSince(impTrace.base) = AcceptedPayloads(rows)

\* the write of the second row that parses is in flight, the first is written
C26_Witness ==
  /\ imp.pc = "await"
  /\ imp.success = 1
  /\ Len(impTrace.rows) = 3
  /\ impTrace.rows[1].out = "accepted"
  /\ impTrace.rows[3].out = "issued"
  /\ Len(storeLogs) = impTrace.base + 1

-----------------------------------------------------------------------------
(* Claims about the form after a save, checked under Spec                  *)

\* C27: handleSaveLog clears weight and reps and switches activeTab to
\* 'history' only after the create write has resolved: the click and the
\* rejection of the write leave weight, reps and activeTab as they are, and
\* the resolution sets them.
C27_FormClearedOnResolve ==
  [][/\ ((\E t \in ClickTimes : HandleSaveLog(t[1], t[2]))
           \/ (\E i \in 1..MaxPendingSaves : SaveRejected(i)))
          => UNCHANGED <<weight, reps, activeTab>>
     /\ (\E i \in 1..MaxPendingSaves : SaveResolved(i))
          => weight' = <<>> /\ reps' = <<>> /\ activeTab' = "history"]_vars

\* a create write is pending and the form still shows what was typed
C27_Witness ==
  /\ Len(saves) = 1
  /\ weight # <<>> /\ reps # <<>>
  /\ activeTab = "record"
  /\ saves[1].weight = parseFloat(weight)

\* the rows of the trace at which toISOString threw
Threw(rows) == {k \in 1..Len(rows) : rows[k].out = "threw"}

\* a row of at least 4 columns with numeric weight and reps and a date that
\* does not parse
BadDateOnly(line) ==
  LET cols == Columns(line)
  IN /\ Len(cols) >= 4
     /\ RowNumbersParse(cols[3], cols[4])
     /\ ~DateParse(cols[1], tz).valid

\* C28: a data row with at least 4 columns and numeric weight and reps whose
\* date does not parse stops the import with importStatus 'error': it is the
\* last row read, nothing is written for it or after it, the rows written
\* before it stay, and importResult is not updated.
C28_BadDateStopsImport ==
  /\ [](LET rows == impTrace.rows
        IN /\ \A k \in 1..Len(rows) : BadDateOnly(rows[k].line) <=> k \in Threw(rows)
           /\ \A k \in Threw(rows) :
                /\ k = Len(rows)
                /\ imp.pc = "idle"
                /\ WrittenSince(impTrace.base) = AcceptedPayloads(rows))
  /\ [][(Threw(impTrace.rows) = {} /\ Threw(impTrace'.rows) # {})
          => /\ importStatus' = "error"
             /\ importResult' = importResult
             /\ \A i \in 1..Len(storeLogs) : storeLogs'[i] = storeLogs[i]]_vars

\* the import stopped at the second line of a file after writing the first,
\* and the file has a row that parses after it
C28_Witness ==
  /\ Len(impTrace.rows) = 2
  /\ impTrace.rows[1].out = "accepted"
  /\ impTrace.rows[2].out = "threw"
  /\ Len(Split(impTrace.file.text, "\n")) = 4
  /\ Len(storeLogs) = impTrace.base + 1
  /\ importStatus = "error"
  /\ importResult = [success |-> 0, error |-> 0]

-----------------------------------------------------------------------------
(* Claims about the end of an import, checked under LiveSpec               *)

\* C29: once executeImport has set importStatus to 'processing', importStatus
\* eventually becomes 'done' or 'error', provided the read completes or fails
\* and every write resolves or is rejected; and 'done' is reached only after
\* every line has been processed.
C29_ImportEnds ==
  /\ (importStatus = "processing") ~> (importStatus \in {"done", "error"})
  /\ [][(importStatus # "done" /\ importStatus' = "done")
          => Len(impTrace'.rows) = Len(Split(impTrace'.file.text, "\n")) - 1]_vars

-----------------------------------------------------------------------------
(* Claims about the selected exercise, checked under SelectSpec            *)

\* C30: after any sequence of exercise selections, add-exercise actions and
\* settings pushes, selectedExercise is a member of the effective exercise
\* list, so every record handleSaveLog creates has an exercise that is in the
\* list at the moment of the save.
C30_SelectedIsRegistered ==
  /\ [](selectedExercise \in Range(exercises))
  /\ [][Len(saves') > Len(saves)
          => saves'[Len(saves')].exercise \in Range(exercises)]_vars

=============================================================================
